---------------------------- MODULE Spec2Model ----------------------------
(***************************************************************************)
(* Monthly digest reports: the orchestration loop of main.py, the date     *)
(* helpers of utils/date_utils.py and modules/analytics.py, the            *)
(* search-console aggregation of modules/search_console.py and the HTML    *)
(* rendering of modules/report_generator.py.                               *)
(*                                                                         *)
(* The specifications share the variables below:                           *)
(*   Spec         generate_monthly_reports (main.py)                       *)
(*   SpecDates    get_previous_month_dates and the analytics date windows  *)
(*   SpecFetch    get_search_console_data                                  *)
(*   SpecHtml     ModernReportGenerator: add_* and generate_html           *)
(*   SpecPdf      ModernReportGenerator.generate_pdf                       *)
(*   SpecCharts   the chart builders of modules/chart_generator.py         *)
(*   SpecUpload   ModernReportGenerator.upload_report                      *)
(*   SpecEmail    send_email (modules/notifier.py)                         *)
(*   SpecOptimize optimize_html_for_email (utils/email_utils.py)           *)
(*   SpecDaily    _process_daily_metrics (modules/analytics.py)            *)
(*   SpecInsights the bounce rate of _generate_insights and generate_html  *)
(*   SpecDeliver  the delivery statements of the client loop (main.py)     *)
(***************************************************************************)
EXTENDS Integers, Sequences, FiniteSets, TLC

VARIABLES
    \* ---- generate_monthly_reports (main.py) ----
    pc,          \* position of the run: "start", "loop", "client", "done"
    clients,     \* clients_config['clients']: one record per configured client
    idx,         \* index of the client the for loop is at (0 before the loop)
    step,        \* index in Pipeline of the next step of the current client
    events,      \* the calls made so far, in order: [client, step, outcome]
    result,      \* the value generate_monthly_reports returned ("" while running)
    \* ---- date helpers ----
    today,       \* datetime.today(), as a calendar date
    period,      \* what get_previous_month_dates returned
    queries,     \* the date ranges get_analytics_data sent to the API
    \* ---- get_search_console_data ----
    response,    \* the API's answer to the by-date query
    scResult,    \* what get_search_console_data returned
    \* ---- ModernReportGenerator ----
    phase,       \* "idle", "building" (constructed), "rendered" (generate_html ran)
    endDate,     \* end_date of the report's period (main.py passes it to the fetchers)
    report_data, \* self.report_data
    prev_month_data, \* self.prev_month_data
    annual_data, \* self.annual_data
    html,        \* the outcome of generate_html
    \* ---- one call of a function checked on its own ----
    arg,         \* the call's arguments and what its collaborators answer
    stage,       \* the statement the call is at ("idle" before, "done" after)
    local,       \* the call's local variables
    out          \* what the call returned or raised

runVars   == <<pc, clients, idx, step, events, result>>
dateVars  == <<today, period, queries>>
fetchVars == <<response, scResult>>
htmlVars  == <<phase, endDate, report_data, prev_month_data, annual_data, html>>
callVars  == <<arg, stage, local, out>>
vars      == <<runVars, dateVars, fetchVars, htmlVars, callVars>>

-----------------------------------------------------------------------------
(* Bounds of the model *)

\* first year and number of consecutive years datetime.today() is drawn from
FirstYear == 2023
NumYears == 3

\* most clients in config/clients.json
MaxClients == 2

\* most rows in an API response
MaxRows == 3

\* most records of the search-console series a report is given
MaxSeries == 2

\* sessions the analytics property records on each day
DailySessions == 2

-----------------------------------------------------------------------------
(* Python dictionaries, None *)

\* a dict is a function from its keys; {} is the empty function
EmptyDict == <<>>

HasKey(d, k) == k \in DOMAIN d

\* None
PyNone == [none |-> TRUE]

\* dict.get(k, default)
Get(d, k, default) == IF k \in DOMAIN d THEN d[k] ELSE default

-----------------------------------------------------------------------------
(* Calendar arithmetic: datetime, timedelta, calendar.monthrange *)

\* calendar.isleap
IsLeap(y) == y % 4 = 0 /\ (y % 100 # 0 \/ y % 400 = 0)

\* calendar.mdays
MDays == <<31, 28, 31, 30, 31, 30, 31, 31, 30, 31, 30, 31>>

\* calendar.monthrange(year, month)[1], with February never 29 days
MonthRangeNoLeap(y, m) == MDays[m]

\* calendar.monthrange(year, month)[1]
MonthRange(y, m) == IF m = 2 /\ IsLeap(y) THEN 29 ELSE MDays[m]

RECURSIVE DaysBeforeMonth(_, _)
DaysBeforeMonth(y, m) ==
    IF m = 1 THEN 0 ELSE DaysBeforeMonth(y, m - 1) + MonthRange(y, m - 1)

DaysBeforeYear(y) ==
    LET p == y - 1 IN p * 365 + (p \div 4) - (p \div 100) + (p \div 400)

\* a calendar date, the content of a 'YYYY-MM-DD' string
Date(y, m, d) == [y |-> y, m |-> m, d |-> d]

\* datetime.strptime(s, '%Y-%m-%d'): the datetime (midnight) as its proleptic
\* Gregorian ordinal, the unit timedelta(days=n) adds to
Strptime(s) == DaysBeforeYear(s.y) + DaysBeforeMonth(s.y, s.m) + s.d

\* datetime.strftime('%Y-%m-%d'): the calendar date of an ordinal
Strftime(n) ==
    LET y == CHOOSE yy \in (n \div 366)..((n \div 365) + 1) :
                 DaysBeforeYear(yy) < n /\ n <= DaysBeforeYear(yy + 1)
        r == n - DaysBeforeYear(y)
        m == CHOOSE mm \in 1..12 :
                 DaysBeforeMonth(y, mm) < r /\ r <= DaysBeforeMonth(y, mm) + MonthRange(y, mm)
    IN Date(y, m, r - DaysBeforeMonth(y, m))

-----------------------------------------------------------------------------
(* utils/date_utils.py *)

\* get_previous_month_dates(), for today = t
GetPreviousMonthDates(t) ==
    LET month == IF t.m = 1 THEN 12 ELSE t.m - 1
        year == IF t.m = 1 THEN t.y - 1 ELSE t.y
        first_day == Date(year, month, 1)
        last_day == Date(year, month, MonthRange(year, month))
    IN [start |-> first_day, end |-> last_day, month |-> month, year |-> year]

NoPeriod == [start |-> Date(0, 0, 0), end |-> Date(0, 0, 0), month |-> 0, year |-> 0]


-----------------------------------------------------------------------------
(* modules/analytics.py: the date ranges of the API queries *)

\* timedelta(days=365), the length get_analytics_data and get_annual_data subtract
YearDays == 365

\* get_analytics_data(property_id, start_date, end_date): the dateRanges of its
\* runReport calls. The five period reports use [start_date, end_date]; the two
\* year reports use [start_date - 365 days, end_date].
AnalyticsQueries(start_date, end_date) ==
    LET year_ago == Strftime(Strptime(start_date) - YearDays)
    IN [start |-> start_date, end |-> end_date,
        year_start |-> year_ago, year_end |-> end_date]

\* analytics.get_previous_month_data(property_id, start_date, end_date): the
\* queries of the get_analytics_data call it makes
PrevMonthQueries(start_date, end_date) ==
    LET current_start == Strptime(start_date)
        current_end == Strptime(end_date)
        current_period_days == (current_end - current_start) + 1
        prev_end == current_start - 1
        prev_start == prev_end - (current_period_days - 1)
    IN AnalyticsQueries(Strftime(prev_start), Strftime(prev_end))

\* analytics.get_annual_data(property_id, end_date): the queries of the
\* get_analytics_data call it makes
AnnualQueries(end_date) ==
    LET end == Strptime(end_date)
        start == end - YearDays
    IN AnalyticsQueries(Strftime(start), end_date)

NoQueries ==
    [fn |-> "none",
     q |-> [start |-> Date(1, 1, 1), end |-> Date(1, 1, 1),
            year_start |-> Date(1, 1, 1), year_end |-> Date(1, 1, 1)]]

-----------------------------------------------------------------------------
(* SpecDates: the date helpers, for every generation date *)

Years == FirstYear..(FirstYear + NumYears - 1)

Days == {Date(y, m, d) : y \in Years, m \in 1..12, d \in 1..31}

ValidDays == {t \in Days : t.d <= MonthRange(t.y, t.m)}

RunIdle ==
    /\ pc = "idle" /\ clients = <<>> /\ idx = 0 /\ step = 0
    /\ events = <<>> /\ result = ""

DatesIdle == today = Date(1, 1, 1) /\ period = NoPeriod /\ queries = NoQueries

FetchIdle ==
    /\ response = [by_date |-> <<>>, by_query |-> <<>>, by_page |-> <<>>]
    /\ scResult = [status |-> "none", data |-> EmptyDict]

HtmlIdle ==
    /\ phase = "idle" /\ endDate = Date(1, 1, 1)
    /\ report_data = EmptyDict /\ prev_month_data = PyNone
    /\ annual_data = PyNone /\ html = [status |-> "none"]

NoOut == [status |-> "none"]

CallIdle == arg = EmptyDict /\ stage = "idle" /\ local = EmptyDict /\ out = NoOut

InitDates ==
    /\ today \in ValidDays
    /\ period = NoPeriod
    /\ queries = NoQueries
    /\ RunIdle /\ FetchIdle /\ HtmlIdle /\ CallIdle

\* main.py line 24: start_date, end_date, month, year = get_previous_month_dates()
CallGetPreviousMonthDates ==
    /\ period = NoPeriod
    /\ period' = GetPreviousMonthDates(today)
    /\ UNCHANGED <<today, queries, runVars, fetchVars, htmlVars, callVars>>

\* main.py line 735: get_analytics_data(property_id, start_date, end_date)
CallGetAnalyticsData ==
    /\ period # NoPeriod
    /\ queries' = [fn |-> "get_analytics_data",
                   q |-> AnalyticsQueries(period.start, period.end)]
    /\ UNCHANGED <<today, period, runVars, fetchVars, htmlVars, callVars>>

\* main.py line 743: analytics.get_previous_month_data(property_id, start_date, end_date)
CallGetPreviousMonthData ==
    /\ period # NoPeriod
    /\ queries' = [fn |-> "get_previous_month_data",
                   q |-> PrevMonthQueries(period.start, period.end)]
    /\ UNCHANGED <<today, period, runVars, fetchVars, htmlVars, callVars>>

\* main.py line 751: analytics.get_annual_data(property_id, end_date)
CallGetAnnualData ==
    /\ period # NoPeriod
    /\ queries' = [fn |-> "get_annual_data", q |-> AnnualQueries(period.end)]
    /\ UNCHANGED <<today, period, runVars, fetchVars, htmlVars, callVars>>

NextDates ==
    \/ CallGetPreviousMonthDates
    \/ CallGetAnalyticsData
    \/ CallGetPreviousMonthData
    \/ CallGetAnnualData

SpecDates == InitDates /\ [][NextDates]_vars

-----------------------------------------------------------------------------
(* Claims about the date helpers *)

\* the Gregorian calendar, stated by rule: the number of days of a month
CalendarDays(y, m) ==
    IF m \in {4, 6, 9, 11} THEN 30
    ELSE IF m # 2 THEN 31
    ELSE IF y % 400 = 0 \/ (y % 4 = 0 /\ y % 100 # 0) THEN 29 ELSE 28

\* C4: get_previous_month_dates returns the calendar month immediately before
\* the generation date's month: month 12 of year-1 in January, otherwise
\* month-1 of the same year; the start date is day 1 of that month and the end
\* date is its last calendar day (28, 29, 30 or 31).
C4_PreviousMonth ==
    period # NoPeriod =>
        /\ today.m = 1 => (period.month = 12 /\ period.year = today.y - 1)
        /\ today.m # 1 => (period.month = today.m - 1 /\ period.year = today.y)
        /\ period.start = Date(period.year, period.month, 1)
        /\ period.end = Date(period.year, period.month,
                             CalendarDays(period.year, period.month))

\* C4 witness: the helper ran on a March date of a leap year and returned
\* February 29 as the end date
C4_Witness ==
    /\ period # NoPeriod
    /\ today.m = 3 /\ IsLeap(today.y)
    /\ period.end.d = 29

\* C8: analytics.get_previous_month_data, called with the first and last day of
\* a calendar month, queries exactly the previous calendar month: from the first
\* to the last day of the month before start_date's month.
C8_PrevMonthIsCalendarMonth ==
    queries.fn = "get_previous_month_data" =>
        LET pm == IF period.month = 1 THEN 12 ELSE period.month - 1
            py == IF period.month = 1 THEN period.year - 1 ELSE period.year
        IN /\ queries.q.start = Date(py, pm, 1)
           /\ queries.q.end = Date(py, pm, CalendarDays(py, pm))


-----------------------------------------------------------------------------
(* Numbers: Python floats as exact rationals *)

Rat(n, d) == [n |-> n, d |-> d]

RatAdd(a, b) == Rat(a.n * b.d + b.n * a.d, a.d * b.d)

RatEq(a, b) == a.n * b.d = b.n * a.d

RatInt(k) == Rat(k, 1)

-----------------------------------------------------------------------------
(* Text: a str is a sequence of one-character strings *)

D_2025_03_01 == <<"2", "0", "2", "5", "-", "0", "3", "-", "0", "1">>
D_2025_03_02 == <<"2", "0", "2", "5", "-", "0", "3", "-", "0", "2">>
D_2025_03_03 == <<"2", "0", "2", "5", "-", "0", "3", "-", "0", "3">>
D_2025_03_04 == <<"2", "0", "2", "5", "-", "0", "3", "-", "0", "4">>
\* the malformed date the chart builders' comments name: '2025--03-01'
D_DoubleDash == <<"2", "0", "2", "5", "-", "-", "0", "3", "-", "0", "5">>
\* text that is no date
D_Garbage == <<"a", "b", "c">>

-----------------------------------------------------------------------------
(* modules/search_console.py *)

\* one row of a searchanalytics().query() response; the API reports
\* ctr = clicks / impressions of the row
ApiRow(key, clicks, impressions, position) ==
    [keys |-> <<key>>, clicks |-> clicks, impressions |-> impressions,
     ctr |-> Rat(clicks, impressions), position |-> position]

\* _process_performance_by_date
RECURSIVE ProcessPerformanceByDate(_)
ProcessPerformanceByDate(rows) ==
    IF rows = <<>> THEN <<>>
    ELSE <<[date |-> Head(rows).keys[1], clicks |-> Head(rows).clicks,
            impressions |-> Head(rows).impressions, ctr |-> Head(rows).ctr,
            position |-> Head(rows).position]>>
         \o ProcessPerformanceByDate(Tail(rows))

\* _process_top_queries
RECURSIVE ProcessTopQueries(_)
ProcessTopQueries(rows) ==
    IF rows = <<>> THEN <<>>
    ELSE <<[query |-> Head(rows).keys[1], clicks |-> Head(rows).clicks,
            impressions |-> Head(rows).impressions, ctr |-> Head(rows).ctr,
            position |-> Head(rows).position]>>
         \o ProcessTopQueries(Tail(rows))

\* _process_top_pages
RECURSIVE ProcessTopPages(_)
ProcessTopPages(rows) ==
    IF rows = <<>> THEN <<>>
    ELSE <<[page |-> Head(rows).keys[1], clicks |-> Head(rows).clicks,
            impressions |-> Head(rows).impressions, ctr |-> Head(rows).ctr,
            position |-> Head(rows).position]>>
         \o ProcessTopPages(Tail(rows))

RECURSIVE SumField(_, _)
SumField(rows, f) ==
    IF rows = <<>> THEN 0 ELSE Head(rows)[f] + SumField(Tail(rows), f)

RECURSIVE SumCtr(_)
SumCtr(rows) ==
    IF rows = <<>> THEN RatInt(0) ELSE RatAdd(Head(rows).ctr, SumCtr(Tail(rows)))

\* _calculate_aggregate_metrics
CalculateAggregateMetrics(rows) ==
    LET total_clicks == SumField(rows, "clicks")
        total_impressions == SumField(rows, "impressions")
        sum_ctr == SumCtr(rows)
        sum_position == SumField(rows, "position")
        count == Len(rows)
    IN [total_clicks |-> total_clicks,
        total_impressions |-> total_impressions,
        avg_ctr |-> IF count > 0 THEN Rat(sum_ctr.n, sum_ctr.d * count) ELSE RatInt(0),
        avg_position |-> IF count > 0 THEN Rat(sum_position, count) ELSE RatInt(0)]

\* get_search_console_data: the dict it returns for the three API responses
\* (by date, by query, by page); results.update(agg_metrics)
GetSearchConsoleData(by_date, by_query, by_page) ==
    LET agg == CalculateAggregateMetrics(by_date)
    IN [performance_by_date |-> ProcessPerformanceByDate(by_date),
        top_queries |-> ProcessTopQueries(by_query),
        top_pages |-> ProcessTopPages(by_page),
        total_clicks |-> agg.total_clicks,
        total_impressions |-> agg.total_impressions,
        avg_ctr |-> agg.avg_ctr,
        avg_position |-> agg.avg_position]

-----------------------------------------------------------------------------
(* SpecFetch: get_search_console_data on every bounded API response *)

SeqsUpTo(S, n) == UNION {[1..k -> S] : k \in 0..n}

\* the sequences of at most n rows of S, no row twice (one row per key)
RowLists(S, n) ==
    {r \in SeqsUpTo(S, n) : \A i, j \in DOMAIN r : r[i] = r[j] => i = j}

\* the by-date rows the API may answer with
DateRows ==
    {ApiRow(D_2025_03_01, 1, 1, 3), ApiRow(D_2025_03_02, 0, 2, 12),
     ApiRow(D_2025_03_03, 30, 1200, 3), ApiRow(D_2025_03_04, 1, 2, 25)}

QueryRows == {ApiRow(<<"q">>, 2, 7, 4)}

PageRows == {ApiRow(<<"/", "p">>, 3, 9, 5)}

NoScResult == [status |-> "none", data |-> EmptyDict]

InitFetch ==
    /\ response \in [by_date : RowLists(DateRows, MaxRows),
                     by_query : SeqsUpTo(QueryRows, 1),
                     by_page : SeqsUpTo(PageRows, 1)]
    /\ scResult = NoScResult
    /\ RunIdle /\ DatesIdle /\ HtmlIdle /\ CallIdle

\* get_search_console_data returns (lines 10-60)
FetchReturns ==
    /\ scResult.status = "none"
    /\ scResult' = [status |-> "returned",
                    data |-> GetSearchConsoleData(response.by_date, response.by_query,
                                                  response.by_page)]
    /\ UNCHANGED <<response, runVars, dateVars, htmlVars, callVars>>

\* credentials or an API call fail: the exception is logged and re-raised
\* (lines 62-64)
FetchRaises ==
    /\ scResult.status = "none"
    /\ scResult' = [status |-> "raised", data |-> EmptyDict]
    /\ UNCHANGED <<response, runVars, dateVars, htmlVars, callVars>>

NextFetch == FetchReturns \/ FetchRaises

SpecFetch == InitFetch /\ [][NextFetch]_vars

\* C7: the CTR reported for the period (avg_ctr of get_search_console_data)
\* equals the period's total clicks divided by its total impressions.
C7_CtrIsClicksOverImpressions ==
    (scResult.status = "returned" /\ scResult.data.total_impressions > 0) =>
        RatEq(scResult.data.avg_ctr,
              Rat(scResult.data.total_clicks, scResult.data.total_impressions))


-----------------------------------------------------------------------------
(* Text operations: str(), int(), str.replace, str.split, str.zfill *)

Digits == <<"0", "1", "2", "3", "4", "5", "6", "7", "8", "9">>

IsDigit(c) == \E i \in 1..10 : Digits[i] = c

DigitVal(c) == (CHOOSE i \in 1..10 : Digits[i] = c) - 1

\* str(n) for an integer n >= 0
RECURSIVE PyStr(_)
PyStr(n) == IF n < 10 THEN <<Digits[n + 1]>> ELSE PyStr(n \div 10) \o <<Digits[(n % 10) + 1]>>

\* int(s) for a string of digits
RECURSIVE PyInt(_)
PyInt(s) ==
    IF Len(s) = 1 THEN DigitVal(s[1])
    ELSE PyInt(SubSeq(s, 1, Len(s) - 1)) * 10 + DigitVal(s[Len(s)])

IsNumeric(s) == s # <<>> /\ \A i \in DOMAIN s : IsDigit(s[i])

StartsWith(s, pat) == Len(s) >= Len(pat) /\ SubSeq(s, 1, Len(pat)) = pat

\* pat in s
RECURSIVE Contains(_, _)
Contains(s, pat) ==
    IF Len(s) < Len(pat) THEN FALSE
    ELSE StartsWith(s, pat) \/ Contains(Tail(s), pat)

\* s.replace(pat, rep): every non-overlapping occurrence, left to right
RECURSIVE Replace(_, _, _)
Replace(s, pat, rep) ==
    IF s = <<>> THEN <<>>
    ELSE IF StartsWith(s, pat)
         THEN rep \o Replace(SubSeq(s, Len(pat) + 1, Len(s)), pat, rep)
         ELSE <<Head(s)>> \o Replace(Tail(s), pat, rep)

\* s.split(sep) for a one-character separator
RECURSIVE Split(_, _)
Split(s, sep) ==
    IF \A i \in DOMAIN s : s[i] # sep THEN <<s>>
    ELSE LET k == CHOOSE i \in DOMAIN s : s[i] = sep /\ \A j \in 1..(i - 1) : s[j] # sep
         IN <<SubSeq(s, 1, k - 1)>> \o Split(SubSeq(s, k + 1, Len(s)), sep)

\* s.zfill(2)
ZFill2(s) == IF Len(s) = 0 THEN <<"0", "0">> ELSE IF Len(s) = 1 THEN <<"0">> \o s ELSE s

\* pd.to_datetime(s) accepts the text: year-month-day in digits naming a
\* calendar day; text that names no date raises
ToDatetimeOk(s) ==
    LET parts == Split(s, "-")
    IN /\ Len(parts) = 3
       /\ \A i \in 1..3 : IsNumeric(parts[i])
       /\ Len(parts[1]) = 4
       /\ PyInt(parts[2]) \in 1..12
       /\ PyInt(parts[3]) >= 1
       /\ PyInt(parts[3]) <= MonthRange(PyInt(parts[1]), PyInt(parts[2]))

-----------------------------------------------------------------------------
(* utils/data_processing.py *)

\* the digits of an integer in groups of three from the right, "." between
\* the groups: f"{n:,}".replace(",", ".")
RECURSIVE GroupThousands(_)
GroupThousands(ds) ==
    IF Len(ds) <= 3 THEN ds
    ELSE GroupThousands(SubSeq(ds, 1, Len(ds) - 3)) \o <<".">>
         \o SubSeq(ds, Len(ds) - 2, Len(ds))

\* format_number(number) with decimal_places = 0, for an integer number >= 0
FormatNumber(n) == GroupThousands(PyStr(n))

RatMul(a, b) == Rat(a.n * b.n, a.d * b.d)

\* abs(x), x >= 0 for a rational with a positive denominator
RatAbs(a) == Rat(IF a.n < 0 THEN 0 - a.n ELSE a.n, a.d)

RatNonNegative(a) == a.n >= 0

\* calculate_growth with a previous value of 0 counted as a growth of 100%
calculate_growthFromZero(current_value, previous_value) ==
    IF previous_value = 0 THEN RatInt(100)
    ELSE RatMul(Rat(current_value - previous_value, previous_value), RatInt(100))

\* calculate_growth(current_value, previous_value) (lines 6-12), for integers
\* with previous_value >= 0
calculate_growth(current_value, previous_value) ==
    IF previous_value = 0 THEN RatInt(0)
    ELSE RatMul(Rat(current_value - previous_value, previous_value), RatInt(100))

\* format_number(number, 1) for number >= 0: f"{number:.1f}" (to the nearest
\* tenth, a tie to the even one) with "," for the decimal point
FormatNumber1(a) ==
    LET q == (a.n * 10) \div a.d
        rem == (a.n * 10) % a.d
        tenths == IF 2 * rem > a.d \/ (2 * rem = a.d /\ q % 2 = 1) THEN q + 1 ELSE q
    IN PyStr(tenths \div 10) \o <<",">> \o PyStr(tenths % 10)


-----------------------------------------------------------------------------
(* modules/analytics.py: the data get_analytics_data returns *)

\* the analytics API: the sessions metric of a report over [start, end]
ApiSessions(start, end) == DailySessions * ((Strptime(end) - Strptime(start)) + 1)

\* _process_year_metrics of the year report: metric values are strings
YearMetrics(q) ==
    [total_sessions |-> PyStr(ApiSessions(q.year_start, q.year_end))]

\* get_analytics_data(property_id, start_date, end_date): the dict it returns.
\* api holds the processed period reports (basic, daily, sources, devices,
\* the devices report being processed twice: sessions and detailed metrics);
\* the year report is the API's answer for the year range of the queries.
GetAnalyticsData(start_date, end_date, api) ==
    LET q == AnalyticsQueries(start_date, end_date)
    IN [basic_metrics |-> api.basic_metrics,
        daily_metrics |-> api.daily_metrics,
        traffic_sources |-> api.traffic_sources,
        devices |-> api.devices,
        devices_metrics |-> api.devices_metrics,
        year_metrics |-> YearMetrics(q),
        top_pages_year |-> api.top_pages_year]

\* analytics.get_annual_data(property_id, end_date): the dict it returns
GetAnnualData(end_date, api) ==
    LET end == Strptime(end_date)
        start == end - YearDays
    IN GetAnalyticsData(Strftime(start), end_date, api)

-----------------------------------------------------------------------------
(* modules/report_generator.py: the chart builders *)

\* what a chart builder hands back: None, or the data URI of the rendered PNG
ChartNone == [kind |-> "none", chart |-> "", points |-> 0]

DataUri(chart, points) == [kind |-> "uri", chart |-> chart, points |-> points]

\* the builder raised
ChartRaised(error) == [kind |-> "raised", chart |-> error, points |-> 0]

\* the date repair shared by the chart builders (lines 102-104, 327-332)
RepairDashes(date_str) ==
    LET a == IF Contains(date_str, <<"-", "-">>)
             THEN Replace(date_str, <<"-", "-">>, <<"-">>) ELSE date_str
    IN Replace(a, <<"-", "0", "-">>, <<"-">>)

\* lines 335-343: zero-pad month and day when the text has three parts
RepairParts(date_str) ==
    LET parts == Split(date_str, "-")
    IN IF Len(parts) = 3
       THEN parts[1] \o <<"-">> \o ZFill2(parts[2]) \o <<"-">> \o ZFill2(parts[3])
       ELSE date_str

\* the rows of daily_data whose date pd.to_datetime accepts after the repair
\* (lines 95-115); a bad date is logged with the logging module the except
\* block imports, and skipped
RECURSIVE TrendValidRows(_)
TrendValidRows(rows) ==
    IF rows = <<>> THEN <<>>
    ELSE (IF ToDatetimeOk(RepairDashes(Head(rows).date)) THEN <<Head(rows)>> ELSE <<>>)
         \o TrendValidRows(Tail(rows))

\* _create_trend_chart (lines 76-172)
CreateTrendChart(rd, render) ==
    LET analytics_data == Get(rd, "analytics", EmptyDict)
    IN IF ~HasKey(analytics_data, "daily_metrics") THEN ChartNone
       ELSE LET daily_data == analytics_data.daily_metrics
                valid_data == TrendValidRows(daily_data)
            IN IF daily_data = <<>> THEN ChartNone
               ELSE IF valid_data = <<>> THEN ChartNone
               ELSE IF ~render THEN ChartRaised("ValueError")
               ELSE DataUri("trend", Len(valid_data))

\* _create_devices_chart (lines 174-216)
CreateDevicesChart(rd, render) ==
    LET analytics_data == Get(rd, "analytics", EmptyDict)
    IN IF ~HasKey(analytics_data, "devices") THEN ChartNone
       ELSE IF ~render THEN ChartRaised("ValueError")
       ELSE DataUri("devices", Cardinality(DOMAIN analytics_data.devices))

\* _create_traffic_sources_chart (lines 218-297)
CreateTrafficSourcesChart(rd, render) ==
    LET analytics_data == Get(rd, "analytics", EmptyDict)
    IN IF ~HasKey(analytics_data, "traffic_sources") THEN ChartNone
       ELSE IF ~render THEN ChartRaised("ValueError")
       ELSE DataUri("traffic_sources",
                    Cardinality({analytics_data.traffic_sources[i].medium :
                                     i \in DOMAIN analytics_data.traffic_sources}))

\* the name logging is bound in modules/report_generator.py: the module never
\* imports it (lines 1-16) and _create_search_performance_chart has no local
\* import
LoggingBound == FALSE

\* lines 320-352: the loop over df['date']. "ok" with the dates kept, or the
\* error the except block's logging.warning raises
RECURSIVE SearchValidDates(_)
SearchValidDates(rows) ==
    IF rows = <<>> THEN [error |-> "", dates |-> <<>>]
    ELSE LET date_str == RepairParts(RepairDashes(Head(rows).date))
             rest == SearchValidDates(Tail(rows))
         IN IF ToDatetimeOk(date_str)
            THEN [error |-> rest.error, dates |-> <<date_str>> \o rest.dates]
            ELSE IF LoggingBound THEN rest
            ELSE [error |-> "NameError", dates |-> <<>>]

\* _create_search_performance_chart (lines 299-433)
CreateSearchPerformanceChart(rd, render) ==
    LET search_console_data == Get(rd, "search_console", EmptyDict)
    IN IF ~HasKey(search_console_data, "performance_by_date") THEN ChartNone
       ELSE LET performance_data == search_console_data.performance_by_date
                valid == SearchValidDates(performance_data)
            IN IF performance_data = <<>> THEN ChartNone
               ELSE IF valid.error # "" THEN ChartRaised(valid.error)
               ELSE IF valid.dates = <<>> THEN ChartNone
               ELSE IF ~render THEN ChartRaised("ValueError")
               ELSE DataUri("search_performance", Len(valid.dates))


-----------------------------------------------------------------------------
(* modules/report_generator.py: generate_html *)

\* int(d.get(k, 0)) for a dict of metric strings
IntGet(d, k) == IF HasKey(d, k) THEN PyInt(d[k]) ELSE 0

\* bool(v) for None or a dict
Truthy(v) == v # PyNone /\ v # EmptyDict

\* bool(chart) for what a chart builder returned: None is false, a data URI
\* is a non-empty string
ChartTruthy(chart) == chart.kind = "uri"

Placeholder == "Dados insuficientes para gerar o grafico"

\* lines 898-916 with the <img> written whatever the builder returned
ChartSlotAlwaysImg(chart, alt, height) ==
    [tag |-> "img", src |-> chart, alt |-> alt]

\* lines 898-916: the <img> embedding the chart, or the placeholder <div>
ChartSlot(chart, alt, height) ==
    IF ChartTruthy(chart)
    THEN [tag |-> "img", src |-> chart, alt |-> alt]
    ELSE [tag |-> "div", height |-> height, text |-> Placeholder]

\* the value a for loop over rows[:5] leaves in a variable it assigns from
\* row[f] on every iteration; before when the list is empty
AfterLoop(before, rows, f) ==
    IF rows = <<>> THEN before
    ELSE LET n == IF Len(rows) < 5 THEN Len(rows) ELSE 5
         IN FormatNumber(rows[n][f])

\* lines 654-679: the error of the month-over-month block, "" when none
ChangesError(prev) ==
    IF ~Truthy(prev) THEN ""
    ELSE IF Get(prev, "search_console", EmptyDict) = PyNone THEN "AttributeError"
    ELSE IF Get(prev, "analytics", EmptyDict) = PyNone THEN "AttributeError"
    ELSE ""

\* _generate_monthly_summary (lines 464-553): the error it raises, "" when it
\* returns
MonthlySummaryError(analytics_data, search_console_data, prev) ==
    LET has_prev_data == prev # PyNone
        basicErr ==
            IF ~HasKey(analytics_data, "basic_metrics") THEN ""
            ELSE IF ~HasKey(analytics_data.basic_metrics, "sessions") THEN "KeyError"
            ELSE IF ~HasKey(analytics_data.basic_metrics, "total_users") THEN "KeyError"
            ELSE IF ~(has_prev_data /\ HasKey(prev, "analytics")) THEN ""
            ELSE IF prev.analytics = PyNone THEN "TypeError"
            ELSE IF ~HasKey(prev.analytics, "basic_metrics") THEN "KeyError"
            ELSE IF ~HasKey(prev.analytics.basic_metrics, "sessions") THEN "KeyError"
            ELSE IF ~HasKey(prev.analytics.basic_metrics, "total_users") THEN "KeyError"
            ELSE ""
        searchErr ==
            IF ~HasKey(search_console_data, "total_impressions") THEN ""
            ELSE IF ~HasKey(search_console_data, "total_clicks") THEN "KeyError"
            ELSE IF ~HasKey(search_console_data, "avg_ctr") THEN "KeyError"
            ELSE IF ~HasKey(search_console_data, "avg_position") THEN "KeyError"
            ELSE IF ~(has_prev_data /\ HasKey(prev, "search_console")) THEN ""
            ELSE IF prev.search_console = PyNone THEN "TypeError"
            ELSE IF ~HasKey(prev.search_console, "total_impressions") THEN "KeyError"
            ELSE IF ~HasKey(prev.search_console, "total_clicks") THEN "KeyError"
            ELSE ""
    IN IF basicErr # "" THEN basicErr ELSE searchErr

\* a > k for a rational with a positive denominator
RatAbove(a, k) == a.n > k * a.d

\* a < k for a rational with a positive denominator
RatBelow(a, k) == a.n < k * a.d

\* lines 472-492: the sentence about visits, by its opening words
VisitsSentence(analytics_data, prev) ==
    IF ~HasKey(analytics_data, "basic_metrics") THEN <<>>
    ELSE IF prev # PyNone /\ HasKey(prev, "analytics")
    THEN LET sessions_growth ==
                 calculate_growth(PyInt(analytics_data.basic_metrics.sessions),
                                  PyInt(prev.analytics.basic_metrics.sessions))
         IN <<IF RatAbove(sessions_growth, 10) THEN "crescimento expressivo"
              ELSE IF RatAbove(sessions_growth, 0) THEN "aumentaram"
              ELSE IF RatBelow(sessions_growth, 0 - 10) THEN "reducao significativa"
              ELSE "se manteve estavel">>
    ELSE <<"Seu site recebeu">>

\* lines 495-520: the sentence about the search results
GoogleSentence(search_console_data, prev) ==
    IF ~HasKey(search_console_data, "total_impressions") THEN <<>>
    ELSE IF prev # PyNone /\ HasKey(prev, "search_console")
    THEN LET impressions_growth ==
                 calculate_growth(search_console_data.total_impressions,
                                  prev.search_console.total_impressions)
             clicks_growth ==
                 calculate_growth(search_console_data.total_clicks,
                                  prev.search_console.total_clicks)
         IN <<IF RatAbove(impressions_growth, 0) /\ RatAbove(clicks_growth, 0)
              THEN "A visibilidade aumentou"
              ELSE IF RatAbove(impressions_growth, 0) THEN "os cliques diminuiram"
              ELSE IF RatAbove(clicks_growth, 0) THEN "mais cliques"
              ELSE "Houve reducao">>
    ELSE <<IF RatBelow(search_console_data.avg_position, 10)
           THEN "apareceu em media na posicao" ELSE "recebeu cliques">>

\* lines 523-546: the sentence about the main source of visits
SourcesSentence(analytics_data) ==
    IF HasKey(analytics_data, "traffic_sources") /\ analytics_data.traffic_sources # <<>>
    THEN <<"A principal fonte de visitas">>
    ELSE <<>>

InsufficientSummary ==
    <<"Nao ha dados suficientes para gerar um resumo detalhado para este mes.">>

\* lines 549-553 joining the sentences whatever their number
MonthlySummaryNoFallback(analytics_data, search_console_data, prev) ==
    VisitsSentence(analytics_data, prev)
        \o GoogleSentence(search_console_data, prev)
        \o SourcesSentence(analytics_data)

\* _generate_monthly_summary (lines 464-553) when it returns: the sentences
\* it joins, or the insufficient-data sentence
MonthlySummary(analytics_data, search_console_data, prev) ==
    LET summary_parts == VisitsSentence(analytics_data, prev)
                             \o GoogleSentence(search_console_data, prev)
                             \o SourcesSentence(analytics_data)
    IN IF summary_parts # <<>> THEN summary_parts ELSE InsufficientSummary

\* lines 727-743: f"{minutes}m {secs}s" of the device's avg_time, or "N/A"
DeviceAvgTime(analytics_data, device) ==
    IF HasKey(analytics_data, "devices_metrics")
       /\ HasKey(analytics_data.devices_metrics, device)
    THEN LET seconds == Get(analytics_data.devices_metrics[device], "avg_time", 0)
         IN PyStr(seconds \div 60) \o <<"m", " ">> \o PyStr(seconds % 60) \o <<"s">>
    ELSE <<"N", "/", "A">>

\* _generate_insights (lines 555-632): the error it raises, "" when it returns
InsightsError(analytics_data, search_console_data, prev) ==
    IF ~(Truthy(prev) /\ HasKey(prev, "analytics")) THEN ""
    ELSE IF ~HasKey(analytics_data, "basic_metrics") THEN "KeyError"
    ELSE IF ~HasKey(analytics_data.basic_metrics, "sessions") THEN "KeyError"
    ELSE IF prev.analytics = PyNone THEN "TypeError"
    ELSE IF ~HasKey(prev.analytics, "basic_metrics") THEN "KeyError"
    ELSE IF ~HasKey(prev.analytics.basic_metrics, "sessions") THEN "KeyError"
    ELSE ""

\* the first step of a sequence that raised, with its error; error "" when
\* none raised
RECURSIVE FirstError(_)
FirstError(errs) ==
    IF errs = <<>> THEN [at |-> "", error |-> ""]
    ELSE IF Head(errs).error # "" THEN Head(errs) ELSE FirstError(Tail(errs))

Step(at, error) == [at |-> at, error |-> error]

ChartError(chart) == IF chart.kind = "raised" THEN chart.chart ELSE ""

\* generate_html (lines 634-920): the template data it renders and what the
\* four chart builders returned, or the exception that leaves it.
\* render: whether pio.to_image can render a figure
GenerateHtml(rd, prev, annual, render) ==
    LET analytics_data == Get(rd, "analytics", EmptyDict)
        search_console_data == Get(rd, "search_console", EmptyDict)
        basic_metrics == Get(analytics_data, "basic_metrics", EmptyDict)
        sessions == FormatNumber(IntGet(basic_metrics, "sessions"))
        users == FormatNumber(IntGet(basic_metrics, "total_users"))
        \* lines 649-679: the changes against the previous month
        has_prev == Truthy(prev)
        prev_analytics == IF has_prev THEN Get(prev, "analytics", EmptyDict) ELSE EmptyDict
        prev_search == IF has_prev THEN Get(prev, "search_console", EmptyDict) ELSE EmptyDict
        prev_basic == IF prev_analytics = PyNone THEN EmptyDict
                      ELSE Get(prev_analytics, "basic_metrics", EmptyDict)
        prev_totals == IF prev_search = PyNone THEN EmptyDict ELSE prev_search
        Change(cur, old) == IF has_prev THEN calculate_growth(cur, old) ELSE RatInt(0)
        sessions_change ==
            Change(IntGet(basic_metrics, "sessions"), IntGet(prev_basic, "sessions"))
        users_change ==
            Change(IntGet(basic_metrics, "total_users"), IntGet(prev_basic, "total_users"))
        impressions_change ==
            Change(Get(search_console_data, "total_impressions", 0),
                   Get(prev_totals, "total_impressions", 0))
        clicks_change ==
            Change(Get(search_console_data, "total_clicks", 0),
                   Get(prev_totals, "total_clicks", 0))
        \* lines 682-685
        ChangeClass(change) == IF RatNonNegative(change) THEN "positive" ELSE "negative"
        \* lines 700-701
        impressions0 == FormatNumber(Get(search_console_data, "total_impressions", 0))
        clicks0 == FormatNumber(Get(search_console_data, "total_clicks", 0))
        \* lines 775-795: the loop over top_queries[:5] assigns clicks, impressions
        top_queries == Get(search_console_data, "top_queries", <<>>)
        impressions1 == AfterLoop(impressions0, top_queries, "impressions")
        clicks1 == AfterLoop(clicks0, top_queries, "clicks")
        \* lines 799-824: the loop over top_pages[:5] assigns them again
        top_pages == Get(search_console_data, "top_pages", <<>>)
        impressions == AfterLoop(impressions1, top_pages, "impressions")
        clicks == AfterLoop(clicks1, top_pages, "clicks")
        \* lines 827-837
        has_year == /\ Truthy(annual) /\ HasKey(annual, "analytics")
                    /\ HasKey(annual.analytics, "year_metrics")
        annual_visits ==
            IF has_year THEN FormatNumber(IntGet(annual.analytics.year_metrics, "total_sessions"))
            ELSE <<"0">>
        top_page_annual ==
            IF has_year /\ HasKey(annual.analytics, "top_pages_year")
                        /\ annual.analytics.top_pages_year # <<>>
            THEN FormatNumber(IntGet(annual.analytics.top_pages_year[1], "views"))
            ELSE <<"0">>
        \* lines 844-847
        trend_chart == CreateTrendChart(rd, render)
        devices_chart == CreateDevicesChart(rd, render)
        traffic_sources_chart == CreateTrafficSourcesChart(rd, render)
        search_performance_chart == CreateSearchPerformanceChart(rd, render)
        raised == FirstError(
            <<Step("generate_html", ChangesError(prev)),
              Step("_generate_monthly_summary",
                   MonthlySummaryError(analytics_data, search_console_data, prev)),
              Step("_generate_insights",
                   InsightsError(analytics_data, search_console_data, prev)),
              Step("_create_trend_chart", ChartError(trend_chart)),
              Step("_create_devices_chart", ChartError(devices_chart)),
              Step("_create_traffic_sources_chart", ChartError(traffic_sources_chart)),
              Step("_create_search_performance_chart",
                   ChartError(search_performance_chart))>>)
    IN IF raised.error # ""
       THEN [status |-> "raised", error |-> raised.error, at |-> raised.at]
       ELSE [status |-> "returned",
             charts |-> [trend_chart |-> trend_chart,
                         devices_chart |-> devices_chart,
                         traffic_sources_chart |-> traffic_sources_chart,
                         search_performance_chart |-> search_performance_chart],
             template |->
                [sessions |-> sessions,
                 users |-> users,
                 impressions |-> impressions,
                 clicks |-> clicks,
                 sessions_change |-> FormatNumber1(RatAbs(sessions_change)),
                 users_change |-> FormatNumber1(RatAbs(users_change)),
                 impressions_change |-> FormatNumber1(RatAbs(impressions_change)),
                 clicks_change |-> FormatNumber1(RatAbs(clicks_change)),
                 sessions_change_class |-> ChangeClass(sessions_change),
                 users_change_class |-> ChangeClass(users_change),
                 impressions_change_class |-> ChangeClass(impressions_change),
                 clicks_change_class |-> ChangeClass(clicks_change),
                 annual_visits |-> annual_visits,
                 top_page_annual |-> top_page_annual,
                 mobile_avg_time |-> DeviceAvgTime(analytics_data, "mobile"),
                 desktop_avg_time |-> DeviceAvgTime(analytics_data, "desktop"),
                 monthly_summary |->
                     MonthlySummary(analytics_data, search_console_data, prev),
                 trend_chart |-> ChartSlot(trend_chart, "tendencia", 300),
                 devices_chart |-> ChartSlot(devices_chart, "dispositivos", 250),
                 traffic_sources_chart |->
                     ChartSlot(traffic_sources_chart, "fontes", 300),
                 search_performance_chart |->
                     ChartSlot(search_performance_chart, "buscas", 300)]]


-----------------------------------------------------------------------------
(* SpecHtml: a ModernReportGenerator is constructed, given data and rendered *)

\* the end dates of the digest periods reports are built for
EndDates == {Date(2025, 3, 31), Date(2024, 12, 31)}

StartOf(end_date) == Date(end_date.y, end_date.m, 1)

DailyRow(date) == [date |-> date, sessions |-> <<"5", "0">>, users |-> <<"3", "0">>,
                   pageviews |-> <<"9", "0">>, conversions |-> <<"0">>]

\* the processed period reports of the analytics API
ApiProfiles ==
    {[basic_metrics |-> b, daily_metrics |-> d, traffic_sources |-> t.sources,
      devices |-> t.devices,
      devices_metrics |-> t.metrics,
      top_pages_year |-> <<[path |-> <<"/">>, title |-> <<"h">>,
                            views |-> <<"3", "2", "1">>]>>] :
        b \in {EmptyDict,
               [sessions |-> <<"1", "5", "0", "0">>, total_users |-> <<"9", "0", "0">>]},
        d \in {<<>>, <<DailyRow(D_2025_03_01)>>, <<DailyRow(D_Garbage)>>,
               <<DailyRow(D_DoubleDash), DailyRow(D_2025_03_02)>>},
        t \in {[sources |-> <<>>, devices |-> EmptyDict, metrics |-> EmptyDict],
               [sources |-> <<[source |-> <<"g">>, medium |-> "organic",
                               sessions |-> <<"5">>, conversions |-> <<"0">>]>>,
                devices |-> [mobile |-> <<"7">>, desktop |-> <<"3">>],
                metrics |-> [mobile |-> [avg_time |-> 95],
                             desktop |-> [avg_time |-> 130]]]}}

\* a property with data in every report
FullProfile ==
    CHOOSE a \in ApiProfiles :
        /\ a.basic_metrics # EmptyDict
        /\ a.daily_metrics = <<DailyRow(D_2025_03_01)>>
        /\ a.devices # EmptyDict

\* the same property in a period with no rows in the basic report
EmptyBasicProfile == [FullProfile EXCEPT !.basic_metrics = EmptyDict]

\* the records a search-console series may hold
SeriesRows ==
    {ApiRow(D_2025_03_01, 1, 1, 3), ApiRow(D_2025_03_03, 30, 1200, 3),
     ApiRow(D_DoubleDash, 0, 2, 12), ApiRow(D_Garbage, 1, 2, 25)}

SearchConsoleInputs ==
    {GetSearchConsoleData(r, q, pg) :
        r \in RowLists(SeriesRows, MaxSeries),
        q \in SeqsUpTo(QueryRows, 1),
        pg \in SeqsUpTo(PageRows, 1)}

PrevSearchConsole ==
    GetSearchConsoleData(<<ApiRow(D_2025_03_02, 1, 4, 6)>>, <<>>, <<>>)

\* the same property in a period with rows and no visit
ZeroProfile ==
    [FullProfile EXCEPT !.basic_metrics = [sessions |-> <<"0">>, total_users |-> <<"0">>]]

\* the search console's answer for a period without rows
ZeroSearchConsole == GetSearchConsoleData(<<>>, <<>>, <<>>)

\* what main.py hands to add_previous_month_data
PrevInputs ==
    {[analytics |-> FullProfile, search_console |-> PrevSearchConsole],
     [analytics |-> EmptyBasicProfile, search_console |-> PrevSearchConsole],
     [analytics |-> ZeroProfile, search_console |-> ZeroSearchConsole]}

InitHtml ==
    /\ phase = "idle" /\ endDate = Date(1, 1, 1)
    /\ report_data = EmptyDict /\ prev_month_data = PyNone
    /\ annual_data = PyNone /\ html = [status |-> "none"]
    /\ RunIdle /\ DatesIdle /\ FetchIdle /\ CallIdle

\* dict[k] = v
DictSet(d, k, v) == [x \in (DOMAIN d) \cup {k} |-> IF x = k THEN v ELSE d[x]]

\* ModernReportGenerator.__init__ (lines 19-56)
NewReport(e) ==
    /\ phase \in {"idle", "rendered"}
    /\ phase' = "building"
    /\ endDate' = e
    /\ report_data' = EmptyDict
    /\ prev_month_data' = PyNone
    /\ annual_data' = PyNone
    /\ html' = [status |-> "none"]
    /\ UNCHANGED <<runVars, dateVars, fetchVars, callVars>>

\* add_data('analytics', get_analytics_data(...)) (lines 58-60; main.py 735, 786)
AddAnalyticsData(api) ==
    /\ phase = "building"
    /\ ~HasKey(report_data, "analytics")
    /\ report_data' = DictSet(report_data, "analytics",
                              GetAnalyticsData(StartOf(endDate), endDate, api))
    /\ UNCHANGED <<phase, endDate, prev_month_data, annual_data, html,
                   runVars, dateVars, fetchVars, callVars>>

\* add_data('search_console', get_search_console_data(...)) (lines 58-60;
\* main.py 759, 787)
AddSearchConsoleData(sc) ==
    /\ phase = "building"
    /\ ~HasKey(report_data, "search_console")
    /\ report_data' = DictSet(report_data, "search_console", sc)
    /\ UNCHANGED <<phase, endDate, prev_month_data, annual_data, html,
                   runVars, dateVars, fetchVars, callVars>>

\* add_previous_month_data (lines 62-67)
AddPreviousMonthData(api, sc) ==
    /\ phase = "building"
    /\ prev_month_data = PyNone
    /\ prev_month_data' =
           [analytics |-> GetAnalyticsData(PrevMonthQueries(StartOf(endDate), endDate).start,
                                           PrevMonthQueries(StartOf(endDate), endDate).end,
                                           api),
            search_console |-> sc]
    /\ UNCHANGED <<phase, endDate, report_data, annual_data, html,
                   runVars, dateVars, fetchVars, callVars>>

\* add_annual_data(get_annual_data(property_id, end_date), None) (lines 69-74;
\* main.py 751, 793)
AddAnnualData ==
    /\ phase = "building"
    /\ annual_data = PyNone
    /\ annual_data' = [analytics |-> GetAnnualData(endDate, FullProfile),
                       search_console |-> PyNone]
    /\ UNCHANGED <<phase, endDate, report_data, prev_month_data, html,
                   runVars, dateVars, fetchVars, callVars>>

\* generate_html (lines 634-920)
CallGenerateHtml(render) ==
    /\ phase = "building"
    /\ phase' = "rendered"
    /\ html' = GenerateHtml(report_data, prev_month_data, annual_data, render)
    /\ UNCHANGED <<endDate, report_data, prev_month_data, annual_data,
                   runVars, dateVars, fetchVars, callVars>>

NextHtml ==
    \/ \E e \in EndDates : NewReport(e)
    \/ \E api \in ApiProfiles : AddAnalyticsData(api)
    \/ \E sc \in SearchConsoleInputs : AddSearchConsoleData(sc)
    \/ \E p \in PrevInputs : AddPreviousMonthData(p.analytics, p.search_console)
    \/ AddAnnualData
    \/ \E render \in BOOLEAN : CallGenerateHtml(render)

SpecHtml == InitHtml /\ [][NextHtml]_vars

-----------------------------------------------------------------------------
(* Claims about generate_html *)

SearchConsoleOf(rd) == Get(rd, "search_console", EmptyDict)

\* C5: the headline 'impressions' and 'clicks' handed to the template are the
\* formatted period totals total_impressions and total_clicks of the
\* search-console data, also when top_queries and top_pages are not empty.
C5_HeadlineIsPeriodTotal ==
    html.status = "returned" =>
        /\ html.template.impressions =
               FormatNumber(Get(SearchConsoleOf(report_data), "total_impressions", 0))
        /\ html.template.clicks =
               FormatNumber(Get(SearchConsoleOf(report_data), "total_clicks", 0))

\* C6: the 'annual_visits' rendered from get_annual_data(property_id, end_date)
\* is the session total of the window that starts 365 days before end_date and
\* ends at end_date.
C6_AnnualIsTrailingYear ==
    (html.status = "returned" /\ annual_data # PyNone) =>
        html.template.annual_visits =
            FormatNumber(ApiSessions(Strftime(Strptime(endDate) - 365), endDate))

ChartSlots == {"trend_chart", "devices_chart", "traffic_sources_chart",
               "search_performance_chart"}

\* C9: whenever generate_html returns, each of the four chart slots holds
\* either the <img> embedding the chart its builder returned or the
\* insufficient-data placeholder, the placeholder exactly when the builder
\* returned None; no slot is left unset.
C9_ChartSlots ==
    html.status = "returned" =>
        \A c \in ChartSlots :
            /\ c \in DOMAIN html.template
            /\ html.charts[c].kind \in {"none", "uri"}
            /\ html.charts[c].kind = "none" =>
                   (html.template[c].tag = "div" /\ html.template[c].text = Placeholder)
            /\ html.charts[c].kind = "uri" =>
                   (html.template[c].tag = "img" /\ html.template[c].src = html.charts[c])

\* C9 witness: a rendered report with a chart in one slot and the placeholder
\* in another
C9_Witness ==
    /\ html.status = "returned"
    /\ html.template.trend_chart.tag = "img"
    /\ html.template.search_performance_chart.tag = "div"
    /\ html.charts.search_performance_chart.kind = "none"

HasBadDate(series) ==
    \E i \in DOMAIN series : ~ToDatetimeOk(RepairParts(RepairDashes(series[i].date)))

\* C10: when performance_by_date holds a record whose date cannot be parsed,
\* _create_search_performance_chart skips it and does not raise (the chart is
\* built from the valid records, or None is returned), so generate_html is
\* never left by an exception of that builder.
C10_BadDateSkipped ==
    (/\ phase = "rendered"
     /\ HasKey(report_data, "search_console")
     /\ HasBadDate(report_data.search_console.performance_by_date)
     /\ html.status = "raised")
        => html.at # "_create_search_performance_chart"


-----------------------------------------------------------------------------
(* main.py: generate_monthly_reports *)

Success == "Relatorios mensais gerados com sucesso!"

\* "Erro: " + str(e) for an exception of the set-up (lines 17-727)
ErroSetup == "Erro: setup"

\* "Erro: 'name'": the KeyError of client['name'] at line 730
ErroName == "Erro: 'name'"

\* the names modules/search_console.py defines or imports (lines 1-131)
SearchConsoleNames ==
    {"build", "pd", "datetime", "timedelta", "json", "logging",
     "get_service_account_credentials", "get_search_console_data",
     "_process_performance_by_date", "_process_top_queries", "_process_top_pages",
     "_calculate_aggregate_metrics"}

\* the names modules/analytics.py defines that main.py calls
AnalyticsNames == {"get_analytics_data", "get_previous_month_data", "get_annual_data"}

\* the statements of the try block of the client loop, in program order
\* (lines 732-823). kind: "fetch" calls a function of a module (an external
\* API behind it), "local" runs in the process, "render" is generate_pdf,
\* "upload" is upload_report, "notify" is notify_client.
Pipeline ==
    <<[name |-> "get_analytics_data", kind |-> "fetch",
       module |-> AnalyticsNames, attr |-> "get_analytics_data"],
      [name |-> "analytics.get_previous_month_data", kind |-> "fetch",
       module |-> AnalyticsNames, attr |-> "get_previous_month_data"],
      [name |-> "get_annual_data", kind |-> "fetch",
       module |-> AnalyticsNames, attr |-> "get_annual_data"],
      [name |-> "get_search_console_data", kind |-> "fetch",
       module |-> SearchConsoleNames, attr |-> "get_search_console_data"],
      [name |-> "search_console.get_previous_month_data", kind |-> "fetch",
       module |-> SearchConsoleNames, attr |-> "get_previous_month_data"],
      [name |-> "ModernReportGenerator", kind |-> "local",
       module |-> {}, attr |-> ""],
      [name |-> "add_data", kind |-> "local", module |-> {}, attr |-> ""],
      [name |-> "generate_pdf", kind |-> "render", module |-> {}, attr |-> ""],
      [name |-> "upload_report", kind |-> "upload", module |-> {}, attr |-> ""],
      [name |-> "notify_client", kind |-> "notify", module |-> {}, attr |-> ""]>>

\* the outcomes that are an exception leaving the statement
Raising == {"raise", "AttributeError"}

\* what a statement of the try block can do for client c.
\* c.healthy: every external service answers this client's calls and its
\* entry holds every key the block reads.
StepOutcomes(c, s) ==
    LET st == Pipeline[s]
    IN IF st.kind = "fetch" /\ st.attr \notin st.module
       THEN {"AttributeError"}      \* the module has no such function
       ELSE IF st.name = "add_data" THEN {"ok"}
       ELSE IF st.kind = "render" THEN {"ok", "raise"}
       ELSE IF st.kind = "upload"
            \* upload_report catches every exception and returns a URL
            THEN IF c.healthy THEN {"ok"} ELSE {"ok", "failed_url_returned"}
       ELSE IF st.kind = "notify"
            THEN IF c.healthy THEN {"sent"} ELSE {"sent", "not_sent", "raise"}
       ELSE IF c.healthy THEN {"ok"} ELSE {"ok", "raise"}

\* where the loop goes after a statement: the next statement, or 0 for the
\* next client, with every exception ignored
NextPositionIgnoreFailure(s, outcome) ==
    IF s = Len(Pipeline) THEN 0 ELSE s + 1

\* where the loop goes after a statement: the next statement, or 0 for the
\* next client (the end of the block, or except ... continue, lines 825-827)
NextPosition(s, outcome) ==
    IF outcome \in Raising \/ s = Len(Pipeline) THEN 0 ELSE s + 1

\* an entry of clients_config['clients']: whether it holds the key 'name'
ClientEntries == [has_name : BOOLEAN, healthy : BOOLEAN]

Init ==
    /\ pc = "start"
    /\ clients \in SeqsUpTo(ClientEntries, MaxClients)
    /\ idx = 0 /\ step = 0 /\ events = <<>> /\ result = ""
    /\ DatesIdle /\ FetchIdle /\ HtmlIdle /\ CallIdle

\* lines 17-727: logging, get_previous_month_dates, the configuration and the
\* template are read
SetUp ==
    /\ pc = "start"
    /\ pc' = "loop"
    /\ UNCHANGED <<clients, idx, step, events, result, dateVars, fetchVars, htmlVars, callVars>>

\* lines 17-727 raise (no config/clients.json, no 'clients' key): the outer
\* except returns the error (lines 831-833)
SetUpFails ==
    /\ pc = "start"
    /\ pc' = "done"
    /\ result' = ErroSetup
    /\ UNCHANGED <<clients, idx, step, events, dateVars, fetchVars, htmlVars, callVars>>

\* lines 729-730: the for loop takes the next client and logs its name; a
\* client without 'name' raises KeyError outside the inner try, which the
\* outer except turns into the return value
NextClient ==
    /\ pc = "loop"
    /\ idx < Len(clients)
    /\ idx' = idx + 1
    /\ IF clients[idx + 1].has_name
       THEN /\ pc' = "client"
            /\ step' = 1
            /\ UNCHANGED result
       ELSE /\ pc' = "done"
            /\ result' = ErroName
            /\ UNCHANGED step
    /\ UNCHANGED <<clients, events, dateVars, fetchVars, htmlVars, callVars>>

\* line 829: the loop is exhausted
ReturnSuccess ==
    /\ pc = "loop"
    /\ idx = Len(clients)
    /\ pc' = "done"
    /\ result' = Success
    /\ UNCHANGED <<clients, idx, step, events, dateVars, fetchVars, htmlVars, callVars>>

\* one statement of the try block (lines 732-823) and, when it raises, the
\* except block (lines 825-827)
RunStep ==
    /\ pc = "client"
    /\ \E o \in StepOutcomes(clients[idx], step) :
        /\ events' = Append(events, [client |-> idx, step |-> Pipeline[step].name,
                                     outcome |-> o])
        /\ IF NextPosition(step, o) = 0
           THEN pc' = "loop" /\ step' = 0
           ELSE pc' = "client" /\ step' = NextPosition(step, o)
    /\ UNCHANGED <<clients, idx, result, dateVars, fetchVars, htmlVars, callVars>>

Next == SetUp \/ SetUpFails \/ NextClient \/ ReturnSuccess \/ RunStep

Spec == Init /\ [][Next]_vars

-----------------------------------------------------------------------------
(* Claims about generate_monthly_reports *)

Ran(i, name, outcomes) ==
    \E k \in DOMAIN events :
        /\ events[k].client = i /\ events[k].step = name
        /\ events[k].outcome \in outcomes

\* C1: a run delivers one report and one notification for every configured
\* client whose external service calls all succeed: when the run has returned,
\* report generation, upload_report and notify_client have run for it.
C1_HealthyClientsDelivered ==
    (pc = "done" /\ result = Success) =>
        \A i \in DOMAIN clients :
            clients[i].healthy =>
                /\ Ran(i, "generate_pdf", {"ok"})
                /\ Ran(i, "upload_report", {"ok"})
                /\ Ran(i, "notify_client", {"sent"})

\* the clients whose first statement is in events, in the order they ran
RECURSIVE Attempted(_)
Attempted(evs) ==
    IF evs = <<>> THEN <<>>
    ELSE LET before == Attempted(SubSeq(evs, 1, Len(evs) - 1))
             c == evs[Len(evs)].client
         IN IF evs[Len(evs)].step = Pipeline[1].name THEN Append(before, c) ELSE before

PipelineIndex(name) == CHOOSE p \in DOMAIN Pipeline : Pipeline[p].name = name

\* C3: for each client the statements run in the fixed order of the pipeline
\* and a statement runs only if all earlier ones of that client completed; in
\* particular notify_client never runs before upload_report has returned.
C3_FixedOrder ==
    \A k \in DOMAIN events :
        LET p == PipelineIndex(events[k].step)
        IN p > 1 =>
            /\ k > 1
            /\ events[k - 1].client = events[k].client
            /\ events[k - 1].step = Pipeline[p - 1].name
            /\ events[k - 1].outcome \notin Raising

\* C3 witness: a client's fifth statement has run after its four earlier
\* fetches completed, and the run has gone on to a second client
C3_Witness ==
    /\ Len(events) >= 6
    /\ events[5].client = 1
    /\ events[5].step = "search_console.get_previous_month_data"
    /\ events[4].outcome = "ok"
    /\ events[6].client = 2

-----------------------------------------------------------------------------
(* modules/report_generator.py: generate_pdf *)

\* most distinct messages an exception of one type carries
MaxMessages == 2

Messages == {<<"m">> \o PyStr(k) : k \in 1..MaxMessages}

\* an exception: its type and str(e)
Exc(type, msg) == [type |-> type, msg |-> msg]

TypeErrors == {Exc("TypeError", m) : m \in Messages}

\* what HTML(...).write_pdf and the temporary file can raise besides TypeError
OtherErrors == {Exc("OSError", m) : m \in Messages}

Raised(e) == [status |-> "raised", error |-> e]

Returned(v) == [status |-> "returned", value |-> v]

\* name 'logging' is not defined
NameErrorLogging == Exc("NameError", <<"name 'logging' is not defined">>)

\* io.BytesIO(): the bytes written and the stream position
BytesIO == [data |-> <<>>, pos |-> 0]

\* write_pdf(pdf_buffer): the document is written, the position is at its end
WritePdf(buffer, h) ==
    [data |-> buffer.data \o <<"%PDF", h>>, pos |-> buffer.pos + 2]

\* pdf_buffer.seek(0)
Seek0(buffer) == [buffer EXCEPT !.pos = 0]

\* the documents generate_html returns to generate_pdf
Htmls == {"<html>a</html>", "<html>b</html>"}

\* f"Não foi possível gerar o PDF: {e1}, {e2}, {e3}"
PdfRuntimeError(e1, e2, e3) ==
    Exc("RuntimeError", <<"Não foi possível gerar o PDF">> \o e1.msg \o e2.msg \o e3.msg)

\* the except block of the third strategy (lines 957-959): logging.error, then
\* raise RuntimeError; logging is no module-level name of report_generator.py
PdfLastHandler(e1, e2, e3) ==
    IF LoggingBound THEN PdfRuntimeError(e1, e2, e3) ELSE NameErrorLogging

NoExc == Exc("", <<>>)

PdfLocals ==
    [html |-> "", pdf_buffer |-> BytesIO, e1 |-> NoExc, e2 |-> NoExc,
     temp_html |-> "none", tried |-> <<>>]

InitPdf ==
    /\ arg \in [html : {Returned(h) : h \in Htmls} \cup {Raised(NameErrorLogging)}]
    /\ stage = "idle"
    /\ local = PdfLocals
    /\ out = NoOut
    /\ RunIdle /\ DatesIdle /\ FetchIdle /\ HtmlIdle

\* lines 925-928: html = self.generate_html(); pdf_buffer = io.BytesIO()
PdfGenerateHtml ==
    /\ stage = "idle"
    /\ IF arg.html.status = "raised"
       THEN /\ stage' = "done"
            /\ out' = arg.html
            /\ UNCHANGED local
       ELSE /\ stage' = "direct"
            /\ local' = [local EXCEPT !.html = arg.html.value]
            /\ UNCHANGED out
    /\ UNCHANGED <<arg, runVars, dateVars, fetchVars, htmlVars>>

Tried(k, outcome) == Append(local.tried, [strategy |-> k, outcome |-> outcome])

\* lines 930-934: HTML(string=html).write_pdf(pdf_buffer)
PdfDirect ==
    /\ stage = "direct"
    /\ \/ /\ stage' = "seek"
          /\ local' = [local EXCEPT !.pdf_buffer = WritePdf(@, local.html),
                                    !.tried = Tried(1, Returned("ok"))]
          /\ UNCHANGED out
       \/ \E e \in TypeErrors :
          /\ stage' = "stylesheet"
          /\ local' = [local EXCEPT !.e1 = e, !.tried = Tried(1, Raised(e))]
          /\ UNCHANGED out
       \/ \E e \in OtherErrors :
          /\ stage' = "done"
          /\ local' = [local EXCEPT !.tried = Tried(1, Raised(e))]
          /\ out' = Raised(e)
    /\ UNCHANGED <<arg, runVars, dateVars, fetchVars, htmlVars>>

\* lines 935-941: html_doc.write_pdf(pdf_buffer, stylesheets=[css])
PdfStylesheet ==
    /\ stage = "stylesheet"
    /\ \/ /\ stage' = "seek"
          /\ local' = [local EXCEPT !.pdf_buffer = WritePdf(@, local.html),
                                    !.tried = Tried(2, Returned("ok"))]
          /\ UNCHANGED out
       \/ \E e \in TypeErrors :
          /\ stage' = "tempfile"
          /\ local' = [local EXCEPT !.e2 = e, !.tried = Tried(2, Raised(e))]
          /\ UNCHANGED out
       \/ \E e \in OtherErrors :
          /\ stage' = "done"
          /\ local' = [local EXCEPT !.tried = Tried(2, Raised(e))]
          /\ out' = Raised(e)
    /\ UNCHANGED <<arg, runVars, dateVars, fetchVars, htmlVars>>

\* lines 942-950: the temporary file is created, written and closed; a failure
\* to create it goes straight to the except block of line 957
PdfTempFile ==
    /\ stage = "tempfile"
    /\ \/ /\ stage' = "fromfile"
          /\ local' = [local EXCEPT !.temp_html = "closed"]
          /\ UNCHANGED out
       \/ \E e \in OtherErrors :
          /\ stage' = "done"
          /\ local' = [local EXCEPT !.tried = Tried(3, Raised(e))]
          /\ out' = Raised(PdfLastHandler(local.e1, local.e2, e))
    /\ UNCHANGED <<arg, runVars, dateVars, fetchVars, htmlVars>>

\* lines 952-959: HTML(temp_html.name).write_pdf(pdf_buffer), the finally
\* block removes the file, any exception reaches the except block
PdfFromTempFile ==
    /\ stage = "fromfile"
    /\ \/ /\ stage' = "seek"
          /\ local' = [local EXCEPT !.pdf_buffer = WritePdf(@, local.html),
                                    !.temp_html = "removed",
                                    !.tried = Tried(3, Returned("ok"))]
          /\ UNCHANGED out
       \/ \E e \in TypeErrors \cup OtherErrors :
          /\ stage' = "done"
          /\ local' = [local EXCEPT !.temp_html = "removed",
                                    !.tried = Tried(3, Raised(e))]
          /\ out' = Raised(PdfLastHandler(local.e1, local.e2, e))
    /\ UNCHANGED <<arg, runVars, dateVars, fetchVars, htmlVars>>

\* lines 961-962: pdf_buffer.seek(0); return pdf_buffer
PdfReturn ==
    /\ stage = "seek"
    /\ stage' = "done"
    /\ local' = [local EXCEPT !.pdf_buffer = Seek0(@)]
    /\ out' = Returned(Seek0(local.pdf_buffer))
    /\ UNCHANGED <<arg, runVars, dateVars, fetchVars, htmlVars>>

NextPdf ==
    \/ PdfGenerateHtml
    \/ PdfDirect
    \/ PdfStylesheet
    \/ PdfTempFile
    \/ PdfFromTempFile
    \/ PdfReturn

SpecPdf == InitPdf /\ [][NextPdf]_vars

\* C11: generate_pdf tries the direct write, the write with a stylesheet and
\* the temporary file in this order, a strategy only after the one before it
\* raised TypeError; when the third fails too the call raises RuntimeError
\* naming the three errors; when a strategy succeeds the call returns the
\* buffer, holding the document, positioned at offset 0.
C11_PdfStrategies ==
    LET t == local.tried
        n == Len(t)
    IN  /\ \A k \in 1..n : t[k].strategy = k
        /\ \A k \in 1..(n - 1) : /\ t[k].outcome.status = "raised"
                                 /\ t[k].outcome.error.type = "TypeError"
        /\ (stage = "done" /\ n > 0 /\ t[n].outcome.status = "returned") =>
               /\ out.status = "returned"
               /\ out.value = [data |-> <<"%PDF", local.html>>, pos |-> 0]
        /\ (stage = "done" /\ n = 3 /\ t[3].outcome.status = "raised") =>
               out = Raised(PdfRuntimeError(t[1].outcome.error, t[2].outcome.error,
                                            t[3].outcome.error))

-----------------------------------------------------------------------------
(* modules/chart_generator.py *)

\* most records in a series given to a chart function
MaxRecords == 2

\* the dict r with only the keys of K
Restrict(r, K) == [k \in K |-> r[k]]

\* pd.DataFrame(records).columns: every key some record has
Columns(records) == UNION {DOMAIN records[i] : i \in DOMAIN records}

\* int(s), float(s), pd.to_numeric(s) accept the text
NumericOk(s) == IsNumeric(s)

\* pd.to_datetime(df[col]), pd.to_numeric(df[col]): a record without the key
\* is NaN in the column, which converts; one unconvertible value raises
ColumnConverts(records, col, Ok(_)) ==
    \A i \in DOMAIN records : HasKey(records[i], col) => Ok(records[i][col])

\* img_buffer = io.BytesIO(); pio.write_image(fig, img_buffer, ...);
\* img_buffer.seek(0); return img_buffer
ImageBuffer(chart, drawn) == Seek0([data |-> <<"PNG", chart, drawn>>, pos |-> 3])

\* return None
ReturnNone == Returned(PyNone)

\* lines 59-71 of create_trend_chart keeping every record
TrendItemOkKeepAll(item) == TRUE

\* lines 59-71 of create_trend_chart: the records converted one by one; the
\* except block of a record that fails formats item['date'], so a record
\* without 'date' raises KeyError there, which ends the loop
TrendItemOk(item) ==
    /\ HasKey(item, "date") /\ ToDatetimeOk(item["date"])
    /\ HasKey(item, "sessions") /\ NumericOk(item["sessions"])
    /\ HasKey(item, "users") /\ NumericOk(item["users"])

\* create_trend_chart(daily_metrics) (lines 20-140); missing: the argument is
\* None; render: pio.write_image succeeds
create_trend_chart(missing, daily_metrics, render) ==
    IF missing \/ daily_metrics = <<>> THEN ReturnNone
    ELSE IF ~("date" \in Columns(daily_metrics)) THEN ReturnNone
    ELSE IF ColumnConverts(daily_metrics, "date", ToDatetimeOk)
    THEN IF ~({"sessions", "users"} \subseteq Columns(daily_metrics)) THEN ReturnNone
         ELSE IF ~(/\ ColumnConverts(daily_metrics, "sessions", NumericOk)
                   /\ ColumnConverts(daily_metrics, "users", NumericOk))
         THEN ReturnNone
         ELSE IF render THEN Returned(ImageBuffer("trend", Len(daily_metrics)))
         ELSE ReturnNone
    ELSE LET valid_data == SelectSeq(daily_metrics, TrendItemOk)
         IN IF \E i \in DOMAIN daily_metrics : ~HasKey(daily_metrics[i], "date")
            THEN ReturnNone
            ELSE IF valid_data = <<>> THEN ReturnNone
            ELSE IF render THEN Returned(ImageBuffer("trend", Len(valid_data)))
            ELSE ReturnNone

\* create_devices_chart(devices_data) (lines 142-214): int(v) of every value
create_devices_chart(missing, devices_data, render) ==
    IF missing \/ devices_data = EmptyDict THEN ReturnNone
    ELSE IF \E k \in DOMAIN devices_data : ~NumericOk(devices_data[k]) THEN ReturnNone
    ELSE IF render
    THEN Returned(ImageBuffer("devices", Cardinality(DOMAIN devices_data)))
    ELSE ReturnNone

\* lines 249-260: the medium's category
TrafficCategory(medium) ==
    CASE medium = "organic" -> "Orgânico"
      [] medium = "referral" -> "Referência"
      [] medium = "social" -> "Social"
      [] medium = "email" -> "Email"
      [] medium \in {"(none)", "direct"} -> "Direto"
      [] OTHER -> "Outros"

\* line 244: the record has both fields
TrafficItemOk(source) == HasKey(source, "medium") /\ HasKey(source, "sessions")

\* create_traffic_sources_chart(traffic_sources) (lines 216-337): records
\* without a field are passed over, int() of a bad sessions text raises
create_traffic_sources_chart(missing, traffic_sources, render) ==
    LET used == SelectSeq(traffic_sources, TrafficItemOk)
        sources == {TrafficCategory(used[i]["medium"]) : i \in DOMAIN used}
    IN  IF missing \/ traffic_sources = <<>> THEN ReturnNone
        ELSE IF \E i \in DOMAIN used : ~NumericOk(used[i]["sessions"]) THEN ReturnNone
        ELSE IF sources = {} THEN ReturnNone
        ELSE IF render THEN Returned(ImageBuffer("traffic_sources", Cardinality(sources)))
        ELSE ReturnNone

\* lines 380-394 of create_search_performance_chart: a record that fails is
\* logged whole and passed over
SearchItemOk(item) ==
    /\ HasKey(item, "date") /\ ToDatetimeOk(item["date"])
    /\ HasKey(item, "impressions") /\ NumericOk(item["impressions"])
    /\ HasKey(item, "clicks") /\ NumericOk(item["clicks"])
    /\ HasKey(item, "position") /\ NumericOk(item["position"])

SearchColumns == {"date", "impressions", "clicks", "position"}

\* create_search_performance_chart(performance_data) (lines 339-488)
create_search_performance_chart(missing, performance_data, render) ==
    IF missing \/ performance_data = <<>> THEN ReturnNone
    ELSE IF ~(SearchColumns \subseteq Columns(performance_data)) THEN ReturnNone
    ELSE IF ColumnConverts(performance_data, "date", ToDatetimeOk)
    THEN IF ~(\A c \in {"impressions", "clicks", "position"} :
                  ColumnConverts(performance_data, c, NumericOk))
         THEN ReturnNone
         ELSE IF render
         THEN Returned(ImageBuffer("search_performance", Len(performance_data)))
         ELSE ReturnNone
    ELSE LET valid_data == SelectSeq(performance_data, SearchItemOk)
         IN IF valid_data = <<>> THEN ReturnNone
            ELSE IF render
            THEN Returned(ImageBuffer("search_performance", Len(valid_data)))
            ELSE ReturnNone

\* lines 539-556 with the except block giving up instead of drawing with PIL
get_empty_chart_imageNoFallback(message, render) ==
    IF render THEN Returned(ImageBuffer("plotly", message)) ELSE ReturnNone

\* get_empty_chart_image(message) (lines 490-556): the Plotly figure with the
\* message, or, when anything in the try block raises, the 400x200 image
\* PIL draws in memory
get_empty_chart_image(message, render) ==
    IF render THEN Returned(ImageBuffer("plotly", message))
    ELSE Returned(ImageBuffer("PIL", "Não foi possível gerar o gráfico"))

-----------------------------------------------------------------------------
(* SpecCharts: one call of a chart_generator function on every bounded input *)

\* a metric as the APIs give it, and text that is no number
NumTexts == {<<"5">>, <<"x">>}

DateTexts == {D_2025_03_01, D_Garbage}

\* the records of daily_metrics: every field, no date, no sessions
TrendItems ==
    {Restrict(r, K) :
        r \in [date : DateTexts, sessions : NumTexts, users : {<<"3">>}],
        K \in {{"date", "sessions", "users"}, {"sessions", "users"}, {"date", "users"}}}

\* devices_data: sessions by device
DeviceDicts ==
    {Restrict(r, K) : r \in [desktop : NumTexts, mobile : NumTexts],
                      K \in SUBSET {"desktop", "mobile"}}

TrafficItems ==
    {Restrict(r, K) :
        r \in [medium : {"organic", "direct", "cpc"}, sessions : NumTexts],
        K \in {{"medium", "sessions"}, {"medium"}, {"sessions"}}}

SearchItems ==
    {Restrict(r, K) :
        r \in [date : DateTexts, impressions : NumTexts, clicks : {<<"2">>},
               position : {<<"3">>}],
        K \in {SearchColumns, SearchColumns \ {"date"}, SearchColumns \ {"position"}}}

EmptyChartMessages == {"Dados insuficientes para gerar o gráfico", "Sem dados"}

\* the calls of fn: with each input, and with None
ChartCalls(fn, inputs) ==
    {[fn |-> fn, missing |-> FALSE, data |-> d] : d \in inputs}
        \cup {[fn |-> fn, missing |-> TRUE, data |-> <<>>]}

InitCharts ==
    /\ \/ arg \in ChartCalls("create_trend_chart", SeqsUpTo(TrendItems, MaxRecords))
       \/ arg \in ChartCalls("create_devices_chart", DeviceDicts)
       \/ arg \in ChartCalls("create_traffic_sources_chart",
                             SeqsUpTo(TrafficItems, MaxRecords))
       \/ arg \in ChartCalls("create_search_performance_chart",
                             SeqsUpTo(SearchItems, MaxRecords))
       \/ arg \in {[fn |-> "get_empty_chart_image", missing |-> FALSE, data |-> m] :
                      m \in EmptyChartMessages}
    /\ stage = "idle"
    /\ local = [render |-> TRUE]
    /\ out = NoOut
    /\ RunIdle /\ DatesIdle /\ FetchIdle /\ HtmlIdle

\* the call runs to its return; render: pio.write_image succeeds
ChartCall(fn, Answer(_)) ==
    /\ stage = "idle"
    /\ arg.fn = fn
    /\ \E render \in BOOLEAN :
        /\ local' = [render |-> render]
        /\ out' = Answer(render)
    /\ stage' = "done"
    /\ UNCHANGED <<arg, runVars, dateVars, fetchVars, htmlVars>>

CallCreateTrendChart ==
    LET Answer(render) == create_trend_chart(arg.missing, arg.data, render)
    IN ChartCall("create_trend_chart", Answer)

CallCreateDevicesChart ==
    LET Answer(render) == create_devices_chart(arg.missing, arg.data, render)
    IN ChartCall("create_devices_chart", Answer)

CallCreateTrafficSourcesChart ==
    LET Answer(render) == create_traffic_sources_chart(arg.missing, arg.data, render)
    IN ChartCall("create_traffic_sources_chart", Answer)

CallCreateSearchPerformanceChart ==
    LET Answer(render) == create_search_performance_chart(arg.missing, arg.data, render)
    IN ChartCall("create_search_performance_chart", Answer)

CallGetEmptyChartImage ==
    LET Answer(render) == get_empty_chart_image(arg.data, render)
    IN ChartCall("get_empty_chart_image", Answer)

NextCharts ==
    \/ CallCreateTrendChart
    \/ CallCreateDevicesChart
    \/ CallCreateTrafficSourcesChart
    \/ CallCreateSearchPerformanceChart
    \/ CallGetEmptyChartImage

SpecCharts == InitCharts /\ [][NextCharts]_vars

-----------------------------------------------------------------------------
(* Claims about chart_generator *)

ChartFunctions ==
    {"create_trend_chart", "create_devices_chart", "create_traffic_sources_chart",
     "create_search_performance_chart"}

SeriesCharts == {"create_trend_chart", "create_search_performance_chart"}

\* the fields of a record that hold a date, and those that hold a number
DateFields(a) == IF a.fn \in SeriesCharts THEN {"date"} ELSE {}

NumberFields(a) ==
    CASE a.fn = "create_trend_chart" -> {"sessions", "users"}
      [] a.fn = "create_search_performance_chart" -> {"impressions", "clicks", "position"}
      [] a.fn = "create_traffic_sources_chart" -> {"sessions"}
      [] a.fn = "create_devices_chart" -> DOMAIN a.data

\* the records a call is given that it draws from: the series, the traffic
\* sources that have both fields, the one dict of devices
RecordsOf(a) ==
    CASE a.fn \in SeriesCharts -> a.data
      [] a.fn = "create_traffic_sources_chart" ->
            SelectSeq(a.data, LAMBDA r : {"medium", "sessions"} \subseteq DOMAIN r)
      [] a.fn = "create_devices_chart" -> <<a.data>>

\* the text YYYY-MM-DD of a day
IsoText(y, m, d) ==
    PyStr(y) \o <<"-">> \o (IF m < 10 THEN <<"0">> ELSE <<>>) \o PyStr(m)
        \o <<"-">> \o (IF d < 10 THEN <<"0">> ELSE <<>>) \o PyStr(d)

DateFails(a, r) ==
    \E f \in DateFields(a) :
        f \in DOMAIN r /\ ~(\E y \in Years, m \in 1..12, d \in 1..31 :
                               d <= CalendarDays(y, m) /\ r[f] = IsoText(y, m, d))

NumberFails(a, r) ==
    \E f \in NumberFields(a) :
        f \in DOMAIN r /\ (\E j \in DOMAIN r[f] : r[f][j] \notin {Digits[k] : k \in 1..10})

SomeDateFails(a) == \E i \in DOMAIN RecordsOf(a) : DateFails(a, RecordsOf(a)[i])

SomeNumberFails(a) == \E i \in DOMAIN RecordsOf(a) : NumberFails(a, RecordsOf(a)[i])

\* a required column is in no record (for the traffic sources: no record has
\* both fields)
MissingColumn(a) ==
    CASE a.fn \in SeriesCharts ->
            ~((DateFields(a) \cup NumberFields(a)) \subseteq Columns(a.data))
      [] a.fn = "create_traffic_sources_chart" -> RecordsOf(a) = <<>>
      [] a.fn = "create_devices_chart" -> FALSE

NoInput(a) == a.missing \/ a.data = <<>>

IsImageAtStart(v) == v # PyNone /\ v.pos = 0 /\ v.data # <<>>

\* C12 as stated: the four chart functions never propagate an exception; they
\* return None for an empty or missing input, a missing required column, an
\* unconvertible value or a rendering failure, and otherwise an image buffer
\* positioned at offset 0.
C12_ChartsNoneOnBadInput ==
    (stage = "done" /\ arg.fn \in ChartFunctions) =>
        /\ out.status = "returned"
        /\ IF \/ NoInput(arg) \/ MissingColumn(arg)
              \/ SomeDateFails(arg) \/ SomeNumberFails(arg)
              \/ ~local.render
           THEN out.value = PyNone
           ELSE IsImageAtStart(out.value)

\* every field of the record is there and converts
Converts(a, r) ==
    /\ (DateFields(a) \cup NumberFields(a)) \subseteq DOMAIN r
    /\ ~DateFails(a, r)
    /\ ~NumberFails(a, r)

\* C12, amended: the four chart functions never propagate an exception and
\* return None or an image buffer at offset 0. They return None for an empty
\* or missing input, a missing required column, a rendering failure, an
\* unconvertible number in the devices or traffic data or beside dates that
\* all convert, and when every record has an unconvertible value. They return
\* an image when nothing of this holds and every value converts; when a date
\* of a series does not convert and every record has every field, the image
\* is drawn from the records that convert.
C12_ChartsNoneOrImage ==
    (stage = "done" /\ arg.fn \in ChartFunctions) =>
        LET recs == RecordsOf(arg)
            good == SelectSeq(recs, LAMBDA r : Converts(arg, r))
        IN  /\ out.status = "returned"
            /\ out.value = PyNone \/ IsImageAtStart(out.value)
            /\ (NoInput(arg) \/ MissingColumn(arg) \/ ~local.render) =>
                   out.value = PyNone
            /\ (SomeNumberFails(arg) /\ ~SomeDateFails(arg)) => out.value = PyNone
            /\ (\A i \in DOMAIN recs : DateFails(arg, recs[i]) \/ NumberFails(arg, recs[i]))
                   => out.value = PyNone
            /\ (/\ ~NoInput(arg) /\ ~MissingColumn(arg) /\ local.render
                /\ ~SomeDateFails(arg) /\ ~SomeNumberFails(arg))
                   => IsImageAtStart(out.value)
            /\ (/\ ~NoInput(arg) /\ local.render /\ SomeDateFails(arg)
                /\ \A i \in DOMAIN recs :
                       (DateFields(arg) \cup NumberFields(arg)) \subseteq DOMAIN recs[i]
                /\ good # <<>>)
                   => /\ IsImageAtStart(out.value)
                      /\ out.value.data[3] = Len(good)

\* a series with a date that does not convert beside a record that converts
\* was drawn, from the record that converts
C12_Witness ==
    /\ stage = "done"
    /\ arg.fn \in SeriesCharts
    /\ SomeDateFails(arg)
    /\ Len(arg.data) = 2
    /\ IsImageAtStart(out.value)
    /\ out.value.data[3] = 1

\* C13: get_empty_chart_image always returns an image buffer, never None,
\* positioned at offset 0: the Plotly placeholder with the message when the
\* rendering succeeds, the image drawn with PIL when it raises.
C13_EmptyChartImage ==
    (stage = "done" /\ arg.fn = "get_empty_chart_image") =>
        /\ out.status = "returned"
        /\ IsImageAtStart(out.value)
        /\ out.value.data[2] = (IF local.render THEN "plotly" ELSE "PIL")
        /\ local.render => out.value.data[3] = arg.data

\* the Plotly rendering raised and the PIL image was returned
C13_Witness ==
    /\ stage = "done"
    /\ arg.fn = "get_empty_chart_image"
    /\ ~local.render
    /\ out.status = "returned"
    /\ out.value.data[2] = "PIL"

-----------------------------------------------------------------------------
(* Claims about the month-over-month changes of generate_html *)

ChangedMetrics == {"sessions", "users", "impressions", "clicks"}

\* the value of metric m in the data a report was given (0 when absent)
MetricIn(analytics, search, m) ==
    LET basic == Get(analytics, "basic_metrics", EmptyDict)
    IN CASE m = "sessions" -> IF HasKey(basic, "sessions") THEN PyInt(basic.sessions) ELSE 0
         [] m = "users" -> IF HasKey(basic, "total_users") THEN PyInt(basic.total_users) ELSE 0
         [] m = "impressions" -> Get(search, "total_impressions", 0)
         [] m = "clicks" -> Get(search, "total_clicks", 0)

CurrentValue(m) ==
    MetricIn(Get(report_data, "analytics", EmptyDict),
             Get(report_data, "search_console", EmptyDict), m)

PreviousValue(m) == MetricIn(prev_month_data.analytics, prev_month_data.search_console, m)

\* the change of metric m in the rendered template, in tenths of a percent,
\* and its class
ReportedTenths(m) ==
    LET t == CASE m = "sessions" -> html.template.sessions_change
               [] m = "users" -> html.template.users_change
               [] m = "impressions" -> html.template.impressions_change
               [] m = "clicks" -> html.template.clicks_change
    IN IF Len(t) >= 3 /\ t[Len(t) - 1] = ","
       THEN PyInt(SubSeq(t, 1, Len(t) - 2)) * 10 + PyInt(<<t[Len(t)]>>)
       ELSE -1

ReportedClass(m) ==
    CASE m = "sessions" -> html.template.sessions_change_class
      [] m = "users" -> html.template.users_change_class
      [] m = "impressions" -> html.template.impressions_change_class
      [] m = "clicks" -> html.template.clicks_change_class

Distance(a, b) == IF a < b THEN b - a ELSE a - b

\* C14: calculate_growth gives ((current - previous) / previous) * 100 when
\* previous is not 0 and 0 when it is 0; so the report generate_html renders
\* shows, for a metric whose previous-month value is 0, a change of 0 marked
\* 'positive' whatever the current value, and otherwise the magnitude of the
\* percentage to the nearest tenth, 'negative' when the metric fell.
C14_GrowthGuarded ==
    (phase = "rendered" /\ html.status = "returned" /\ prev_month_data # PyNone) =>
        \A m \in ChangedMetrics :
            LET c == CurrentValue(m)
                q == PreviousValue(m)
            IN IF q = 0
               THEN ReportedTenths(m) = 0 /\ ReportedClass(m) = "positive"
               ELSE /\ ReportedTenths(m) >= 0
                    /\ 2 * Distance(ReportedTenths(m) * q, Distance(c, q) * 1000) <= q
                    /\ ReportedClass(m) = (IF c >= q THEN "positive" ELSE "negative")

\* a report with visits this month and none the month before was rendered
C14_Witness ==
    /\ phase = "rendered"
    /\ html.status = "returned"
    /\ prev_month_data # PyNone
    /\ PreviousValue("sessions") = 0
    /\ CurrentValue("sessions") > 0
    /\ html.template.sessions_change = <<"0", ",", "0">>
    /\ html.template.sessions_change_class = "positive"

\* C20: with previous-month data added whose analytics 'basic_metrics' is an
\* empty dictionary (the previous period had no rows), generate_html is not
\* stopped by the summary or the insights, and the report it renders shows
\* the changes of sessions and users as 0.
C20_EmptyPreviousMonth ==
    (/\ phase = "rendered"
     /\ prev_month_data # PyNone
     /\ prev_month_data.analytics.basic_metrics = EmptyDict) =>
        /\ html.status = "raised" =>
               html.at \notin {"_generate_monthly_summary", "_generate_insights"}
        /\ html.status = "returned" =>
               /\ html.template.sessions_change = <<"0", ",", "0">>
               /\ html.template.users_change = <<"0", ",", "0">>

-----------------------------------------------------------------------------
(* modules/report_generator.py: upload_report *)

\* a Python int, and a Python str (its text)
PyIntValue(n) == [type |-> "int", n |-> n, t |-> <<>>]

PyStrValue(t) == [type |-> "str", n |-> 0, t |-> t]

\* isinstance(x, str) and x.isdigit()
IsDigitStr(x) == x.type = "str" /\ IsNumeric(x.t)

\* f"{x}" of an int or a str
FormatPlain(x) == IF x.type = "int" THEN PyStr(x.n) ELSE x.t

\* f"{n:02d}" of an int n >= 0
Format02d(n) == ZFill2(PyStr(n))

\* Unknown format code 'd' for object of type 'str'
ValueErrorFormat == Exc("ValueError", <<"Unknown format code 'd' for object of type 'str'">>)

\* f"gs://{bucket_name}/{client_id}/report_{year}_{month}.pdf" from the texts
ReportUrl(bucket_name, client_id, year, month) ==
    <<"gs://", bucket_name, "/", client_id, "/report_">> \o year \o <<"_">> \o month
        \o <<".pdf">>

BucketName == "monthly-digest-reports"

\* upload_report(pdf_buffer, client_id, year, month) (lines 965-1014);
\* stored: storage.Client(), bucket.blob and blob.upload_from_file succeed
upload_report(client_id, year, month, stored) ==
    LET month_int == IF IsDigitStr(month) THEN PyInt(month.t) ELSE month.n
        year_int == IF IsDigitStr(year) THEN PyInt(year.t) ELSE year.n
    IN IF stored
       THEN Returned(ReportUrl(BucketName, client_id, PyStr(year_int), Format02d(month_int)))
       ELSE \* lines 1010-1014: the arguments as they were given
            IF month.type = "int"
            THEN Returned(ReportUrl(BucketName, client_id, FormatPlain(year),
                                    Format02d(month.n)))
            ELSE Raised(ValueErrorFormat)

\* the years and months a report is uploaded for, as int and as digit string
UploadYears == {PyIntValue(y) : y \in Years} \cup {PyStrValue(PyStr(y)) : y \in Years}

UploadMonths == {PyIntValue(m) : m \in 1..12} \cup {PyStrValue(PyStr(m)) : m \in 1..12}
                    \cup {PyStrValue(<<"0">> \o PyStr(m)) : m \in 1..9}

ClientIds == {"client1", "client2"}

InitUpload ==
    /\ arg \in [client_id : ClientIds, year : UploadYears, month : UploadMonths]
    /\ stage = "idle"
    /\ local = EmptyDict
    /\ out = NoOut
    /\ RunIdle /\ DatesIdle /\ FetchIdle /\ HtmlIdle

\* lines 979-1009: the file is stored
UploadStored ==
    /\ stage = "idle"
    /\ stage' = "done"
    /\ local' = [stored |-> TRUE]
    /\ out' = upload_report(arg.client_id, arg.year, arg.month, TRUE)
    /\ UNCHANGED <<arg, runVars, dateVars, fetchVars, htmlVars>>

\* lines 999-1007 raise (no credentials, no bucket, the upload fails): the
\* except block of lines 1010-1014
UploadFails ==
    /\ stage = "idle"
    /\ stage' = "done"
    /\ local' = [stored |-> FALSE]
    /\ out' = upload_report(arg.client_id, arg.year, arg.month, FALSE)
    /\ UNCHANGED <<arg, runVars, dateVars, fetchVars, htmlVars>>

NextUpload == UploadStored \/ UploadFails

SpecUpload == InitUpload /\ [][NextUpload]_vars

\* the number an int or a digit string stands for
NumberOf(x) == IF x.type = "int" THEN x.n ELSE PyInt(x.t)

\* C15: upload_report never raises; stored or not, for year and month given
\* as integers or digit strings, it returns
\* gs://<bucket>/<client_id>/report_<year>_<MM>.pdf with the month in two
\* digits.
C15_UploadNeverRaises ==
    stage = "done" =>
        /\ out.status = "returned"
        /\ out.value =
               <<"gs://", "monthly-digest-reports", "/", arg.client_id, "/report_">>
                   \o PyStr(NumberOf(arg.year)) \o <<"_">>
                   \o (IF NumberOf(arg.month) < 10 THEN <<"0">> ELSE <<>>)
                   \o PyStr(NumberOf(arg.month)) \o <<".pdf">>

-----------------------------------------------------------------------------
(* modules/notifier.py: send_email *)

\* the status codes the mail API answers with
StatusCodes == {200, 400, 401, 500}

\* the exceptions of the collaborators: the secret store, a chart buffer,
\* the HTTP client
EmailErrors == {Exc("Exception", <<"secret">>), Exc("ValueError", <<"closed file">>),
                Exc("ConnectionError", <<"network">>)}

\* the body of an answer: with Messages[0].To[0].MessageID, or without
ResponseBodies == {[Messages |-> <<[To |-> <<[MessageID |-> <<"7">>]>>]>>],
                   [Messages |-> <<>>]}

\* return False, f"Erro ao enviar e-mail: {str(e)}" (lines 112-114)
EmailFailed(e) ==
    Returned([success |-> FALSE, message |-> <<"Erro ao enviar e-mail: ">> \o e.msg])

\* lines 105-110 returning True whatever the status code
CheckResponseAnyStatus(status_code, reason, body) ==
    IF body.Messages = <<>> THEN EmailFailed(Exc("IndexError", <<"list index out of range">>))
    ELSE Returned([success |-> TRUE,
                   message |-> <<"E-mail enviado com sucesso. ID da mensagem: ">>
                               \o body.Messages[1].To[1].MessageID])

\* lines 105-110, and 112-114 when the body has no message id
CheckResponse(status_code, reason, body) ==
    IF status_code = 200
    THEN IF body.Messages = <<>>
         THEN EmailFailed(Exc("IndexError", <<"list index out of range">>))
         ELSE Returned([success |-> TRUE,
                        message |-> <<"E-mail enviado com sucesso. ID da mensagem: ">>
                                    \o body.Messages[1].To[1].MessageID])
    ELSE Returned([success |-> FALSE,
                   message |-> <<"Erro ao enviar e-mail: ">> \o PyStr(status_code)
                               \o <<" - ", reason>>])

\* chart_buffers: None, or image buffers (or None) by chart name
ChartBufferInputs ==
    {[missing |-> TRUE, buffers |-> EmptyDict],
     [missing |-> FALSE, buffers |-> EmptyDict],
     [missing |-> FALSE, buffers |-> [trend |-> TRUE]],
     [missing |-> FALSE, buffers |-> [trend |-> FALSE, devices |-> TRUE]]}

EmailLocals ==
    [sender_email |-> "", sender_name |-> "", email_body |-> "",
     inlined_attachments |-> {}, status_code |-> 0, body |-> [Messages |-> <<>>],
     raised |-> FALSE]

InitEmail ==
    /\ arg \in [to : {"a@example.com"}, message_html : {"<p>m</p>"},
                report_html : {"", "<html>r</html>"},
                sender : {"", "s@example.com"},
                chart_buffers : ChartBufferInputs]
    /\ stage = "idle"
    /\ local = EmailLocals
    /\ out = NoOut
    /\ RunIdle /\ DatesIdle /\ FetchIdle /\ HtmlIdle

\* an exception inside the try block: lines 112-114
EmailRaise(e) ==
    /\ stage' = "done"
    /\ local' = [local EXCEPT !.raised = TRUE]
    /\ out' = EmailFailed(e)

\* lines 23-38: credentials, client, sender, body
EmailCredentials ==
    /\ stage = "idle"
    /\ \/ /\ stage' = "attachments"
          /\ local' = [local EXCEPT
                 !.sender_email = IF arg.sender = "" THEN "secret@example.com"
                                  ELSE arg.sender,
                 !.sender_name = IF arg.sender = "" THEN "secret name"
                                 ELSE "Relatórios Mensais",
                 !.email_body = IF arg.report_html # "" THEN arg.report_html
                                ELSE arg.message_html]
          /\ UNCHANGED out
       \/ \E e \in EmailErrors : EmailRaise(e)
    /\ UNCHANGED <<arg, runVars, dateVars, fetchVars, htmlVars>>

\* lines 41-65: every chart buffer that is not None is read and attached
EmailAttachments ==
    /\ stage = "attachments"
    /\ LET b == arg.chart_buffers.buffers
           read == {k \in DOMAIN b : b[k]}
       IN \/ /\ stage' = "send"
             /\ local' = [local EXCEPT !.inlined_attachments = read]
             /\ UNCHANGED out
          \/ /\ read # {}
             /\ \E e \in EmailErrors : EmailRaise(e)
    /\ UNCHANGED <<arg, runVars, dateVars, fetchVars, htmlVars>>

\* lines 71-102: the payload is sent; the API answers or the client raises
EmailSend ==
    /\ stage = "send"
    /\ \/ \E code \in StatusCodes, body \in ResponseBodies :
            /\ stage' = "answered"
            /\ local' = [local EXCEPT !.status_code = code, !.body = body]
            /\ UNCHANGED out
       \/ \E e \in EmailErrors : EmailRaise(e)
    /\ UNCHANGED <<arg, runVars, dateVars, fetchVars, htmlVars>>

\* lines 105-114: the answer is checked
EmailCheckResponse ==
    /\ stage = "answered"
    /\ stage' = "done"
    /\ out' = CheckResponse(local.status_code, "reason", local.body)
    /\ local' = [local EXCEPT !.raised = (local.status_code = 200 /\ local.body.Messages = <<>>)]
    /\ UNCHANGED <<arg, runVars, dateVars, fetchVars, htmlVars>>

NextEmail == EmailCredentials \/ EmailAttachments \/ EmailSend \/ EmailCheckResponse

SpecEmail == InitEmail /\ [][NextEmail]_vars

\* C16 as stated: send_email never raises; it returns (True, message) exactly
\* when the mail API answered with status 200, and (False, message) for any
\* other status and for any exception.
C16_TrueIffStatus200 ==
    stage = "done" =>
        /\ out.status = "returned"
        /\ out.value.success <=> (local.status_code = 200)

\* C16, amended: send_email never raises; it returns (True, message) exactly
\* when the mail API answered with status 200 and the answer carries the
\* message id, and (False, message) for any other status, for an answer of
\* status 200 without the message id, and for any exception raised while
\* fetching credentials, building attachments or sending.
C16_TrueIffSent ==
    stage = "done" =>
        /\ out.status = "returned"
        /\ out.value.success <=>
               (local.status_code = 200 /\ local.body.Messages # <<>> /\ ~local.raised)
        /\ out.value.success => local.status_code = 200
        /\ local.raised => ~out.value.success

\* the API answered 200 without a message id and send_email returned False
C16_Witness ==
    /\ stage = "done"
    /\ local.status_code = 200
    /\ local.body.Messages = <<>>
    /\ out.status = "returned"
    /\ ~out.value.success

-----------------------------------------------------------------------------
(* Claims about the value generate_monthly_reports returns *)

\* C17: generate_monthly_reports never raises; the step that ends a run
\* returns the success message when the dates, the configuration and the
\* template were set up, whatever happened to the clients, and a string
\* starting with 'Erro: ' exactly when the exception was raised outside the
\* loop over the clients (during the set-up).
C17_SuccessAfterSetUp ==
    [][(pc # "done" /\ pc' = "done") =>
           IF pc = "start"
           THEN result' # Success /\ result' = ErroSetup
           ELSE result' = Success]_vars

-----------------------------------------------------------------------------
(* utils/email_utils.py: optimize_html_for_email *)

\* a document by what the function looks at: its <head>, the CSS of its
\* <style> ("" when it has none), its <body>, and what was added to it
Document(has_head, css, has_body) ==
    [head |-> has_head, css |-> css, body |-> has_body,
     meta |-> FALSE, inlined |-> FALSE, wrapped |-> FALSE]

HtmlContents ==
    {Document(h, c, b) : h \in BOOLEAN, b \in BOOLEAN,
                         c \in {"", "color: var(--primary)", "color: #111218"}}

\* what BeautifulSoup and the tree operations can raise
SoupErrors == {Exc("TypeError", <<"object of type 'NoneType' has no len()">>),
               Exc("AttributeError", <<"'NoneType' object has no attribute 'insert'">>)}

\* css_content.replace(f"var({var_name})", hex_value) (lines 49-50)
ReplaceCssVariables(css) == IF css = "color: var(--primary)" THEN "color: #111218" ELSE css

\* lines 194-198 returning the tree as far as it was transformed
OptimizeHandlerReturnsSoup(html_content, soup) == Returned(soup)

\* lines 194-198: the error is logged, html_content is returned
OptimizeHandler(html_content, soup) == Returned(html_content)

InitOptimize ==
    /\ arg \in [html_content : HtmlContents]
    /\ stage = "idle"
    /\ local = [soup |-> Document(FALSE, "", FALSE), raised |-> FALSE, error |-> NoExc]
    /\ out = NoOut
    /\ RunIdle /\ DatesIdle /\ FetchIdle /\ HtmlIdle

\* a statement of the try block raises
OptimizeRaises ==
    /\ stage \in {"idle", "meta", "css", "inline", "body", "return"}
    /\ \E e \in SoupErrors :
        /\ stage' = "done"
        /\ local' = [local EXCEPT !.raised = TRUE, !.error = e]
        /\ out' = OptimizeHandler(arg.html_content, local.soup)
    /\ UNCHANGED <<arg, runVars, dateVars, fetchVars, htmlVars>>

\* line 17: soup = BeautifulSoup(html_content, 'html.parser')
OptimizeParse ==
    /\ stage = "idle"
    /\ stage' = "meta"
    /\ local' = [local EXCEPT !.soup = arg.html_content]
    /\ UNCHANGED <<arg, out, runVars, dateVars, fetchVars, htmlVars>>

\* lines 20-32: the meta tags, when there is a <head>
OptimizeMeta ==
    /\ stage = "meta"
    /\ stage' = "css"
    /\ local' = [local EXCEPT !.soup.meta = local.soup.head]
    /\ UNCHANGED <<arg, out, runVars, dateVars, fetchVars, htmlVars>>

\* lines 35-53: the CSS variables of every <style>
OptimizeCss ==
    /\ stage = "css"
    /\ stage' = "inline"
    /\ local' = [local EXCEPT !.soup.css = ReplaceCssVariables(local.soup.css)]
    /\ UNCHANGED <<arg, out, runVars, dateVars, fetchVars, htmlVars>>

\* lines 55-168: inline styles of cards, charts, tables, sections, boxes
OptimizeInline ==
    /\ stage = "inline"
    /\ stage' = "body"
    /\ local' = [local EXCEPT !.soup.inlined = TRUE]
    /\ UNCHANGED <<arg, out, runVars, dateVars, fetchVars, htmlVars>>

\* lines 171-190: the wrapper and the footer, when there is a <body>
OptimizeBody ==
    /\ stage = "body"
    /\ stage' = "return"
    /\ local' = [local EXCEPT !.soup.wrapped = local.soup.body]
    /\ UNCHANGED <<arg, out, runVars, dateVars, fetchVars, htmlVars>>

\* line 192: return str(soup)
OptimizeReturn ==
    /\ stage = "return"
    /\ stage' = "done"
    /\ out' = Returned(local.soup)
    /\ UNCHANGED <<arg, local, runVars, dateVars, fetchVars, htmlVars>>

NextOptimize ==
    \/ OptimizeRaises
    \/ OptimizeParse
    \/ OptimizeMeta
    \/ OptimizeCss
    \/ OptimizeInline
    \/ OptimizeBody
    \/ OptimizeReturn

SpecOptimize == InitOptimize /\ [][NextOptimize]_vars

\* C18: optimize_html_for_email never raises, and when an exception occurs
\* while it parses or transforms the document it returns the HTML it was
\* given, unchanged.
C18_InputOnException ==
    stage = "done" =>
        /\ out.status = "returned"
        /\ local.raised => out.value = arg.html_content

\* the transformation raised after the tree had been changed, and the input
\* was returned
C18_Witness ==
    /\ stage = "done"
    /\ local.raised
    /\ local.soup.inlined
    /\ local.soup # arg.html_content
    /\ out = Returned(arg.html_content)

-----------------------------------------------------------------------------
(* modules/analytics.py: _process_daily_metrics *)

MaxDailyRows == 2

\* a row of the daily report: the date dimension and the metric values in
\* the order of the request (sessions, totalUsers, screenPageViews and,
\* when the property reports them, conversions)
DailyReportRow(date_str, sessions, conversions) ==
    [dimensionValues |-> <<[value |-> date_str]>>,
     metricValues |-> <<[value |-> sessions], [value |-> <<"3">>], [value |-> <<"9">>]>>
                      \o conversions]

DailyReportRows ==
    {DailyReportRow(d, s, c) :
        d \in {<<"2", "0", "2", "4", "0", "2", "2", "9">>,
               <<"2", "0", "2", "3", "1", "2", "0", "1">>},
        s \in {<<"5">>, <<"1", "2">>},
        c \in {<<>>, <<[value |-> <<"2">>]>>}}

\* the response of runReport: 'rows' is left out when no row matched
DailyReports ==
    {[has_rows |-> FALSE, rows |-> <<>>]}
        \cup {[has_rows |-> TRUE, rows |-> r] : r \in SeqsUpTo(DailyReportRows, MaxDailyRows)}

\* line 184 without the default
ConversionsOfFourth(metricValues) ==
    IF Len(metricValues) > 3 THEN metricValues[4].value ELSE <<>>

\* line 184
ConversionsOf(metricValues) ==
    IF Len(metricValues) > 3 THEN metricValues[4].value ELSE <<"0">>

\* lines 178-192, one row
ProcessDailyRow(row) ==
    LET date_str == row.dimensionValues[1].value
        formatted_date == SubSeq(date_str, 1, 4) \o <<"-">> \o SubSeq(date_str, 5, 6)
                              \o <<"-">> \o SubSeq(date_str, 7, Len(date_str))
    IN  [date |-> formatted_date,
         sessions |-> row.metricValues[1].value,
         users |-> row.metricValues[2].value,
         pageviews |-> row.metricValues[3].value,
         conversions |-> ConversionsOf(row.metricValues)]

RECURSIVE AppendDailyRows(_, _)
AppendDailyRows(daily_data, rows) ==
    IF rows = <<>> THEN daily_data
    ELSE AppendDailyRows(Append(daily_data, ProcessDailyRow(Head(rows))), Tail(rows))

process_daily_metrics(report) ==
    AppendDailyRows(<<>>, IF report.has_rows THEN report.rows ELSE <<>>)

InitDaily ==
    /\ arg \in [report : DailyReports]
    /\ stage = "idle"
    /\ local = EmptyDict
    /\ out = NoOut
    /\ RunIdle /\ DatesIdle /\ FetchIdle /\ HtmlIdle

CallProcessDailyMetrics ==
    /\ stage = "idle"
    /\ stage' = "done"
    /\ out' = Returned(process_daily_metrics(arg.report))
    /\ UNCHANGED <<arg, local, runVars, dateVars, fetchVars, htmlVars>>

NextDaily == CallProcessDailyMetrics

SpecDaily == InitDaily /\ [][NextDaily]_vars

\* C19: _process_daily_metrics returns one record per row of the report, in
\* the order of the rows; each record has the row's date as YYYY-MM-DD and
\* the row's sessions, users, pageviews and conversions, the conversions
\* being '0' when the row has fewer than four metric values; a report with
\* no rows, or without the 'rows' key, gives the empty list.
C19_OneRecordPerRow ==
    stage = "done" =>
        LET rows == arg.report.rows
            daily_data == out.value
        IN  /\ out.status = "returned"
            /\ Len(daily_data) = Len(rows)
            /\ (~arg.report.has_rows \/ rows = <<>>) => daily_data = <<>>
            /\ \A i \in 1..Len(rows) :
                LET d == rows[i].dimensionValues[1].value
                    m == rows[i].metricValues
                IN  /\ daily_data[i].date =
                            <<d[1], d[2], d[3], d[4], "-", d[5], d[6], "-", d[7], d[8]>>
                    /\ daily_data[i].sessions = m[1].value
                    /\ daily_data[i].users = m[2].value
                    /\ daily_data[i].pageviews = m[3].value
                    /\ daily_data[i].conversions =
                            IF Len(m) < 4 THEN <<"0">> ELSE m[4].value

\* two different rows, the second without conversions, were processed
C19_Witness ==
    /\ stage = "done"
    /\ Len(arg.report.rows) = 2
    /\ arg.report.rows[1] # arg.report.rows[2]
    /\ Len(arg.report.rows[1].metricValues) = 4
    /\ Len(arg.report.rows[2].metricValues) = 3
    /\ Len(out.value) = 2
    /\ out.value[2].conversions = <<"0">>

-----------------------------------------------------------------------------
(* Claims about a report without data *)

\* no add_data, add_previous_month_data or add_annual_data call was made
NoDataAdded ==
    report_data = EmptyDict /\ prev_month_data = PyNone /\ annual_data = PyNone

\* C21: when generate_html is called with no data added it returns, and it
\* renders 0 for sessions, users, impressions and clicks, '0' for both annual
\* highlights, 'N/A' for both per-device times, the insufficient-data monthly
\* summary and the placeholder in each of the four chart slots.
C21_RendersWithoutData ==
    (phase = "rendered" /\ NoDataAdded) =>
        /\ html.status = "returned"
        /\ \A f \in {"sessions", "users", "impressions", "clicks",
                     "annual_visits", "top_page_annual"} :
               html.template[f] = <<"0">>
        /\ \A f \in {"mobile_avg_time", "desktop_avg_time"} :
               html.template[f] = <<"N", "/", "A">>
        /\ html.template.monthly_summary = InsufficientSummary
        /\ \A c \in ChartSlots :
               /\ html.template[c].tag = "div"
               /\ html.template[c].text = Placeholder

\* a report was rendered with no data added
C21_Witness ==
    /\ phase = "rendered"
    /\ NoDataAdded
    /\ html.status = "returned"
    /\ html.template.monthly_summary = InsufficientSummary

-----------------------------------------------------------------------------
(* Claims about the chart builders of the report *)

\* the series each chart builder of the report draws, <<>> or {} when the
\* key is absent
InputSeries(rd, c) ==
    LET analytics_data == Get(rd, "analytics", EmptyDict)
        search_console_data == Get(rd, "search_console", EmptyDict)
    IN CASE c = "trend_chart" -> Get(analytics_data, "daily_metrics", <<>>)
         [] c = "devices_chart" -> Get(analytics_data, "devices", EmptyDict)
         [] c = "traffic_sources_chart" -> Get(analytics_data, "traffic_sources", <<>>)
         [] c = "search_performance_chart" ->
                Get(search_console_data, "performance_by_date", <<>>)

\* C22: whenever generate_html returns, each chart builder whose input series
\* is absent or empty has returned None and its slot shows the
\* insufficient-data placeholder.
C22_NoneWithoutSeries ==
    html.status = "returned" =>
        \A c \in ChartSlots :
            InputSeries(report_data, c) = <<>> =>
                /\ html.charts[c] = ChartNone
                /\ html.template[c].tag = "div"

-----------------------------------------------------------------------------
(* modules/report_generator.py: the bounce rate in _generate_insights and in
   generate_html *)

\* 10 ** k
RECURSIVE Pow10(_)
Pow10(k) == IF k = 0 THEN 1 ELSE 10 * Pow10(k - 1)

\* float(s) for digits with an optional decimal point
PyFloat(s) ==
    LET parts == Split(s, ".")
    IN IF Len(parts) = 1 THEN RatInt(PyInt(s))
       ELSE Rat(PyInt(parts[1] \o parts[2]), Pow10(Len(parts[2])))

\* the bounceRate metric of the basic report: a fraction of the sessions,
\* as the text the API sends
BounceRateTexts ==
    {<<"0", ".", Digits[a], Digits[b]>> : a \in 1..10, b \in 1..10} \cup {<<"1">>}

BasicMetricsInputs ==
    {[sessions |-> <<"1", "5", "0", "0">>]}
        \cup {[sessions |-> <<"1", "5", "0", "0">>, bounce_rate |-> t] :
                 t \in BounceRateTexts}

AboveInsight == "A taxa de rejeicao esta acima de 70%."

BelowInsight == "A taxa de rejeicao esta abaixo de 40%, o que e excelente!"

\* _generate_insights, lines 578-585: the insights about the bounce rate
BounceRateInsights(analytics_data) ==
    IF HasKey(analytics_data, "basic_metrics")
       /\ HasKey(analytics_data.basic_metrics, "bounce_rate")
    THEN LET bounce_rate == PyFloat(analytics_data.basic_metrics.bounce_rate)
         IN IF RatAbove(bounce_rate, 70) THEN <<AboveInsight>>
            ELSE IF RatBelow(bounce_rate, 40) THEN <<BelowInsight>>
            ELSE <<>>
    ELSE <<>>

\* generate_html, lines 715-716: the number before the format
BounceRatePercentage(basic_metrics) ==
    RatMul(IF HasKey(basic_metrics, "bounce_rate")
           THEN PyFloat(basic_metrics.bounce_rate) ELSE RatInt(0),
           RatInt(100))

InitInsights ==
    /\ arg \in [basic_metrics : BasicMetricsInputs]
    /\ stage = "idle"
    /\ local = EmptyDict
    /\ out = NoOut
    /\ RunIdle /\ DatesIdle /\ FetchIdle /\ HtmlIdle

\* generate_html on a report whose analytics data has these basic metrics:
\* the bounce_rate of the template and the bounce-rate items of insights_list
CallGenerateInsights ==
    /\ stage = "idle"
    /\ stage' = "done"
    /\ out' = Returned(
           [bounce_rate |-> FormatNumber1(BounceRatePercentage(arg.basic_metrics)),
            insights |-> BounceRateInsights([basic_metrics |-> arg.basic_metrics])])
    /\ UNCHANGED <<arg, local, runVars, dateVars, fetchVars, htmlVars>>

NextInsights == CallGenerateInsights

SpecInsights == InitInsights /\ [][NextInsights]_vars

\* C23: for every bounce_rate of basic_metrics, the 'acima de 70%' insight is
\* emitted exactly when the percentage generate_html renders (bounce_rate
\* times 100) is above 70, and the 'abaixo de 40%' insight exactly when that
\* percentage is below 40.
C23_InsightsOnRenderedScale ==
    (stage = "done" /\ HasKey(arg.basic_metrics, "bounce_rate")) =>
        LET percentage == BounceRatePercentage(arg.basic_metrics)
            emitted == {out.value.insights[i] : i \in DOMAIN out.value.insights}
        IN  /\ AboveInsight \in emitted <=> RatAbove(percentage, 70)
            /\ BelowInsight \in emitted <=> RatBelow(percentage, 40)

-----------------------------------------------------------------------------
(* main.py: the delivery of one client's report (lines 796-823), from
   generate_pdf to notify_client, with upload_report as the code has it *)

DeliverLocals == [stored |-> FALSE, report_url |-> <<>>, notified |-> FALSE]

\* year and month are the integers get_previous_month_dates returned (line 24)
InitDeliver ==
    /\ arg \in [client_id : ClientIds,
                year : {PyIntValue(y) : y \in Years},
                month : {PyIntValue(m) : m \in 1..12}]
    /\ stage = "generate_pdf"
    /\ local = DeliverLocals
    /\ out = NoOut
    /\ RunIdle /\ DatesIdle /\ FetchIdle /\ HtmlIdle

\* line 796: pdf_buffer = report.generate_pdf(); an exception goes to the
\* except block of lines 825-827
DeliverGeneratePdf ==
    /\ stage = "generate_pdf"
    /\ \E ok \in BOOLEAN :
        IF ok THEN stage' = "upload_report" /\ UNCHANGED out
        ELSE stage' = "done" /\ out' = Raised(PdfRuntimeError(NoExc, NoExc, NoExc))
    /\ UNCHANGED <<arg, local, runVars, dateVars, fetchVars, htmlVars>>

\* lines 799-808: report_url = upload_report(...); stored: whether the PDF
\* reached the bucket
DeliverUpload ==
    /\ stage = "upload_report"
    /\ \E stored \in BOOLEAN :
        LET answer == upload_report(arg.client_id, arg.year, arg.month, stored)
        IN IF answer.status = "returned"
           THEN /\ stage' = "notify_client"
                /\ local' = [local EXCEPT !.stored = stored, !.report_url = answer.value]
                /\ UNCHANGED out
           ELSE /\ stage' = "done"
                /\ local' = [local EXCEPT !.stored = stored]
                /\ out' = answer
    /\ UNCHANGED <<arg, runVars, dateVars, fetchVars, htmlVars>>

\* lines 811-823: notifier.notify_client(client, report_url, ...) and the log
\* of its answer
DeliverNotify ==
    /\ stage = "notify_client"
    /\ \E success \in BOOLEAN :
        /\ stage' = "done"
        /\ local' = [local EXCEPT !.notified = TRUE]
        /\ out' = Returned([success |-> success, report_url |-> local.report_url])
    /\ UNCHANGED <<arg, runVars, dateVars, fetchVars, htmlVars>>

NextDeliver == DeliverGeneratePdf \/ DeliverUpload \/ DeliverNotify

SpecDeliver == InitDeliver /\ [][NextDeliver]_vars

=============================================================================
